---- MODULE Spec2Model ----
(***************************************************************************)
(* Session engine of the mqttie MQTT client (package client).              *)
(*                                                                         *)
(* The model follows client.go (Client, NewClient, Connect, Ping, Publish, *)
(* Subscribe, Unsubscribe), client_internal.go (aquirePacketID,            *)
(* recvRoutine) and utils.go (packetMap, packetChanMap).  Caller           *)
(* goroutines and the reader goroutine interleave at every synchronised    *)
(* operation of the code: one atomic add, one mutex-protected map call,    *)
(* one channel operation, or one PacketIO.Send / PacketIO.Recv.            *)
(*                                                                         *)
(* uint16 packet identifiers are modelled modulo IdSpace instead of        *)
(* modulo 65536, so that the wrap of the counter is reachable.             *)
(***************************************************************************)
EXTENDS Integers, Sequences, FiniteSets, TLC

\* ------------------------------------------------------------------ bounds
\* number of distinct packet identifiers (65536 in the code)
IdSpace == 3
\* CONNACK return codes the server uses are 0..MaxRetCode and 255
MaxRetCode == 7
\* capacity of a subscriber's delivery channel
SinkCap == 1
\* longest topic list of one Subscribe call
MaxTopics == 2
\* number of packet ids the server uses for its QoS2 publishes
MaxInbound == 1
\* QoS values a caller passes to Publish are 0..MaxQoS (QoS is a uint8)
MaxQoS == 3
\* the writes of the connection one packet takes
WriteChunks == 2

Callers == {"c1", "c2"}
Ids == 0 .. (IdSpace - 1)
Filters == {"a", "b"}
Sinks == {"s1", "s2"}
QoSValues == {0, 1, 2}
SubAckCodes == {2, 3, 128}

\* ------------------------------------------------------- program constants
\* make(chan error, 1), make(chan *packets.PingResp, 1), make(chan *ConnAck, 1)
ChanCap == 1
ConnAckAccepted == 0
ConnAckBadVersion == 1
ConnAckIDNotAllowed == 2
ConnAckServerUnavail == 3
ConnAckBadCredentials == 4
ConnAckUnauthorized == 5

\* no sink / no error
Absent == "absent"
Nil == "nil"
\* the nil channel, and the value of a key that is not in ackChan
NoChan == 0

\* channel objects made by packetChanMap.New; one is reclaimed when nothing
\* refers to it any more
ChanIds == 1 .. (2 * Cardinality(Callers) + 1)

\* ------------------------------------------------------------------ state
VARIABLES
    packetIDCounter,  \* Client.packetIDCounter, modulo IdSpace
    pendingPackets,   \* Client.pendingPackets: id -> packet or Absent
    ackChan,          \* Client.ackChan: id -> channel object or Absent
    chans,            \* buffer of every channel object made by New
    errChan,          \* Client.errChan, capacity 1
    connAck,          \* Client.connAck, capacity 1
    pingResp,         \* Client.pingResp, capacity 1
    subs,             \* Client.subs: filter -> sink or Absent
    sinkBuf,          \* number of payloads buffered in each subscriber sink
    pc,               \* position of every caller goroutine
    op,               \* the operation a caller is executing, with its arguments
    pid,              \* local packetID / ret of the caller
    tries,            \* loop variable i of aquirePacketID
    achan,            \* local ackChan of the caller (result of ackChan.Get)
    got,              \* value the caller received from a channel
    result,           \* what the caller's last operation returned
    rpc,              \* position of the reader goroutine
    rpkt,             \* packet the reader is dispatching
    rchan,            \* channel the reader got from ackChan.Get
    rerr,             \* error the reader is about to push on errChan
    hist,             \* observations about the run (no program state)
    topicTree,        \* a topicChan tree (utils.go)
    rcall,            \* the last call of add / get / remove and its outcome
    registered,       \* the <<filter, sink>> pairs handed to add and not
                      \* removed since (no program state)
    venc,             \* the last call of EncodeUvarint: argument and results
    vdec,             \* the last call of ReadVarint: input and results
    pio,              \* a PacketIO: its version and the bytes in its conn
    sent,             \* the packet the last Send wrote on an empty conn and
                      \* no Recv has read yet (no program state)
    recvd,            \* what the last Recv returned, and the packet that
                      \* was sent for it (no program state)
    cenc,             \* a packets.Connect: the options Client.Connect made
                      \* it from, the struct, and what MarshalBinary returned
    snd,              \* the tasks inside PacketIO.Send: the sendMutex
                      \* channel, each task's position, and the chunks on
                      \* the transport since the last task entered
    acc               \* the calls of topicChan in progress: for each task
                      \* the method it is inside and the topic it passed

tables == <<packetIDCounter, pendingPackets, ackChan, chans>>
signals == <<errChan, connAck, pingResp>>
router == <<subs, sinkBuf>>
callerVars == <<pc, op, pid, tries, achan, got, result>>
readerVars == <<rpc, rpkt, rchan, rerr>>
treeVars == <<topicTree, rcall, registered>>
varintVars == <<venc, vdec>>
codecVars == <<pio, sent, recvd>>
connectVars == <<cenc>>
sendVars == <<snd>>
accVars == <<acc>>
libVars == <<treeVars, varintVars, codecVars, connectVars, sendVars, accVars>>
vars == <<packetIDCounter, pendingPackets, ackChan, chans, errChan, connAck,
          pingResp, subs, sinkBuf, pc, op, pid, tries, achan, got, result,
          rpc, rpkt, rchan, rerr, hist,
          topicTree, rcall, registered, venc, vdec, pio, sent, recvd, cenc,
          snd, acc>>

\* ---------------------------------------------------------------- packets
Pkt(kind, id, qos, topic, codes, rc) ==
    [kind |-> kind, id |-> id, qos |-> qos, topic |-> topic,
     codes |-> codes, rc |-> rc]
NoPkt == Pkt("none", 0, 0, "", <<>>, 0)
PubAckPkt(i) == Pkt("PubAck", i, 0, "", <<>>, 0)
PubRecPkt(i) == Pkt("PubRec", i, 0, "", <<>>, 0)
PubRelPkt(i) == Pkt("PubRel", i, 0, "", <<>>, 0)
PubCompPkt(i) == Pkt("PubComp", i, 0, "", <<>>, 0)
UnsubAckPkt(i) == Pkt("UnsubAck", i, 0, "", <<>>, 0)
SubAckPkt(i, codes) == Pkt("SubAck", i, 0, "", codes, 0)
PublishPkt(i, q, t) == Pkt("Publish", i, q, t, <<>>, 0)
ConnAckPkt(r) == Pkt("ConnAck", 0, 0, "", <<>>, r)
PingRespPkt == Pkt("PingResp", 0, 0, "", <<>>, 0)
\* a packet kind the client must never receive (recvRoutine's default case)
OtherPkt == Pkt("PingReq", 0, 0, "", <<>>, 0)
\* what a caller holds after it received from errChan instead of a packet
ErrorValue == Pkt("error", 0, 0, "", <<>>, 0)

\* the error of a failed write and of a failed read of the transport
SendErr == "write error"
RecvErr == "read error"
CloseErr == "close error"

NoOp == [name |-> "none", qos |-> 0, topics |-> <<>>]
NoResult == [op |-> "none", err |-> Nil]
\* hist.q2[i]: the topic of the inbound QoS2 PUBLISH i whose payload was
\*   handed to a sink since the last PUBREL i, "" when there is none;
\* hist.unsubbed: the filters whose Unsubscribe returned nil and that no
\*   later Subscribe has named;
\* hist.closed: c.io.Close() has been called; hist.closeErr: what it returned;
\* hist.wire: the packets that c.io.Send has written for the reader since the
\*   reader's last c.io.Recv returned
NoHist == [q2 |-> [i \in Ids |-> ""], unsubbed |-> {}, closed |-> FALSE,
           closeErr |-> Nil, wire |-> <<>>]

\* sequences over S of length lo..hi
SeqsOf(S, lo, hi) == UNION {[1 .. n -> S] : n \in lo .. hi}

\* ------------------------------------------------------ packetMap (utils.go)
\* the value of a key that is not in pendingPackets
NoEntry == [kind |-> "absent", qos |-> 0]
\* _, ok := p.packets[packetID]
HasPacket(m, k) == m[k] # NoEntry
\* _, ok := p.chans[packetID]
HasChan(m, k) == m[k] # NoChan
\* packetMap.Add: keeps an existing entry
PacketMapAdd(m, k, v) == IF HasPacket(m, k) THEN m ELSE [m EXCEPT ![k] = v]
\* packetMap.Set: overwrites
PacketMapSet(m, k, v) == [m EXCEPT ![k] = v]
\* packetMap.Del
PacketMapDel(m, k) == [m EXCEPT ![k] = NoEntry]
\* packetChanMap.Del
PacketChanMapDel(m, k) == [m EXCEPT ![k] = NoChan]

\* the packets kept in pendingPackets: the outbound PUBLISH, the PUBREL stored
\* on PUBREC and the PUBREC stored on an inbound QoS2 PUBLISH.  qos is the
\* QoS of the outbound PUBLISH the entry stands for (0 when there is none);
\* the code never reads a stored packet, it only tests the key
PendPublish(q) == [kind |-> "Publish", qos |-> q]
PendPubRel(q) == [kind |-> "PubRel", qos |-> q]
PendPubRec == [kind |-> "PubRec", qos |-> 0]

\* ------------------------------------------------- channel objects of ackChan
\* the channel objects something still refers to
Live(ac, ach, rch) ==
    {ac[i] : i \in Ids} \cup {ach[c] : c \in Callers} \cup {rch}
\* garbage collection: a channel nothing refers to loses its buffer
Collect(ch, ac, ach, rch) ==
    [x \in ChanIds |-> IF x \in Live(ac, ach, rch) THEN ch[x] ELSE <<>>]
FreshChan == CHOOSE x \in ChanIds :
    /\ x \notin Live(ackChan, achan, rchan)
    /\ \A y \in ChanIds : y < x => y \in Live(ackChan, achan, rchan)
\* non-blocking send on a channel of capacity 1 (select ... default)
TrySend(ch, x, p) ==
    IF x # NoChan /\ Len(ch[x]) < ChanCap THEN [ch EXCEPT ![x] = Append(@, p)]
    ELSE ch

\* ------------------------------------------------------ topicChan (utils.go)
\* A topic is the sequence of its characters.  A node of the tree is named by
\* the path of map keys that leads to it from the root t; the root is <<>>.
\* tree.nodes: the nodes reachable through the Child maps; tree.chan: the
\* field Chan of every node (Nil for a nil channel); tree.nilc: the nodes
\* whose field Child is a nil map.
EmptyTree == [nodes |-> {<<>>}, chan |-> [n \in {<<>>} |-> Nil],
              nilc |-> {<<>>}]
\* the nil *topicChan
NilPtr == <<<<"nil">>>>
NoCall == [name |-> "none", topic |-> <<>>, chan |-> Nil, panic |-> FALSE]

\* strings.Split(topic, "/")
RECURSIVE SplitFrom(_, _)
SplitFrom(cur, rest) ==
    IF rest = <<>> THEN <<cur>>
    ELSE IF Head(rest) = "/" THEN <<cur>> \o SplitFrom(<<>>, Tail(rest))
    ELSE SplitFrom(Append(cur, Head(rest)), Tail(rest))
Split(topic) == SplitFrom(<<>>, topic)

\* s, ok := topicPtr.Child[name]
HasChild(tree, ptr, name) == Append(ptr, name) \in tree.nodes
\* topicPtr.Child[name] = &topicChan{Child: make(...), Parent: topicPtr}
NewChild(tree, ptr, name) ==
    [nodes |-> tree.nodes \cup {Append(ptr, name)},
     chan |-> [n \in tree.nodes \cup {Append(ptr, name)} |->
                 IF n \in tree.nodes THEN tree.chan[n] ELSE Nil],
     nilc |-> tree.nilc]
\* x.Child = make(map[string]*topicChan) when x.Child == nil
MakeChild(tree, x) == [tree EXCEPT !.nilc = @ \ {x}]

\* the loop of topicChan.add over the scopes that are left.  The result is
\* the tree, the final topicPtr, and whether the loop panicked on a nil
\* pointer or on a write to a nil map
RECURSIVE AddLoop(_, _, _)
AddLoop(tree, topicPtr, scopes) ==
    IF scopes = <<>>
    THEN [tree |-> tree, ptr |-> topicPtr, panic |-> FALSE]
    ELSE IF topicPtr = NilPtr
    THEN [tree |-> tree, ptr |-> NilPtr, panic |-> TRUE]
    ELSE LET name == Head(scopes)
             s == Append(topicPtr, name)
         IN  IF HasChild(tree, topicPtr, name)
             THEN \* topicPtr = s, then topicPtr = topicPtr.Child[name]
                  AddLoop(MakeChild(tree, s),
                          IF HasChild(tree, s, name) THEN Append(s, name)
                          ELSE NilPtr,
                          Tail(scopes))
             ELSE IF topicPtr \in tree.nilc
             THEN [tree |-> tree, ptr |-> topicPtr, panic |-> TRUE]
             ELSE AddLoop(NewChild(tree, topicPtr, name), s, Tail(scopes))

\* topicChan.add: the tree it leaves and whether it panicked
TopicChanAdd(tree, topic, c) ==
    LET r == AddLoop(MakeChild(tree, <<>>), <<>>, Split(topic))
    IN  IF r.panic \/ r.ptr = NilPtr
        THEN [tree |-> r.tree, panic |-> TRUE]
        ELSE [tree |-> [r.tree EXCEPT !.chan[r.ptr] = c], panic |-> FALSE]

\* the loop of topicChan.get from scope i on
RECURSIVE GetLoop(_, _, _, _)
GetLoop(tree, topicPtr, scopes, i) ==
    IF i > Len(scopes) THEN tree.chan[topicPtr]
    ELSE IF HasChild(tree, topicPtr, <<"*">>)
    THEN IF i = Len(scopes) THEN tree.chan[Append(topicPtr, <<"*">>)]
         ELSE Nil
    ELSE IF HasChild(tree, topicPtr, <<"+">>)
    THEN GetLoop(tree, Append(topicPtr, <<"+">>), scopes, i + 1)
    ELSE IF HasChild(tree, topicPtr, scopes[i])
    THEN GetLoop(tree, Append(topicPtr, scopes[i]), scopes, i + 1)
    ELSE Nil

\* the lookup follows the named branches only
TopicChanGetMut(tree, topic) ==
    IF Split(topic) \in tree.nodes THEN tree.chan[Split(topic)] ELSE Nil
\* topicChan.get
TopicChanGet(tree, topic) == GetLoop(tree, <<>>, Split(topic), 1)

\* the first loop of topicChan.remove: follow the scopes that exist
RECURSIVE RemoveWalk(_, _, _)
RemoveWalk(tree, topicPtr, scopes) ==
    IF scopes = <<>> THEN topicPtr
    ELSE RemoveWalk(tree,
                    IF HasChild(tree, topicPtr, Head(scopes))
                    THEN Append(topicPtr, Head(scopes)) ELSE topicPtr,
                    Tail(scopes))
\* len(parent.Child)
NumChildren(tree, x) ==
    Cardinality({n \in tree.nodes : Len(n) = Len(x) + 1
                                     /\ SubSeq(n, 1, Len(x)) = x})
\* the second loop of topicChan.remove: climb while the parent has one child
\* and no channel
RECURSIVE CleanUp(_, _)
CleanUp(tree, root) ==
    IF root = <<>> THEN root
    ELSE LET parent == SubSeq(root, 1, Len(root) - 1)
         IN  IF NumChildren(tree, parent) > 1 \/ tree.chan[parent] # Nil
             THEN root
             ELSE CleanUp(tree, parent)
\* root.Child = nil
DropChildren(tree, root) ==
    LET keep == {n \in tree.nodes :
                    ~(Len(n) > Len(root) /\ SubSeq(n, 1, Len(root)) = root)}
    IN  [nodes |-> keep, chan |-> [n \in keep |-> tree.chan[n]],
         nilc |-> (tree.nilc \cap keep) \cup {root}]
\* topicChan.remove
TopicChanRemove(tree, topic) ==
    LET ptr == RemoveWalk(tree, <<>>, Split(topic))
        cut == [tree EXCEPT !.chan[ptr] = Nil]
    IN  DropChildren(cut, CleanUp(cut, ptr))

\* ------------------------------------------- varints (util and x/util)
\* A byte is a number in 0..255, a buffer and the input of a reader are
\* sequences of bytes.
\* the largest value of four 7-bit groups
MaxVarint == 128 * 128 * 128 * 128 - 1
ErrVarintTooLong == "varint too long: > 4 bytes"
\* the runtime error binary.PutUvarint panics with when b is too short
ErrIndex == "index out of range"
ErrEOF == "EOF"
NoEnc == [val |-> 0, buf |-> <<>>, n |-> 0, err |-> Nil]
NoDec == [impl |-> "none", in |-> <<>>, v |-> 0, n |-> 0, err |-> Nil]

RECURSIVE Pow2(_)
Pow2(i) == IF i = 0 THEN 1 ELSE 2 * Pow2(i - 1)

\* binary.PutUvarint: the bytes it writes when the buffer is long enough
RECURSIVE PutUvarint(_)
PutUvarint(x) ==
    IF x >= 128 THEN <<(x % 128) + 128>> \o PutUvarint(x \div 128)
    ELSE <<x>>

\* EncodeUvarint(b, val) with len(b) = size: PutUvarint panics on the index
\* size when it needs more bytes, and the deferred function turns the panic
\* into err
EncodeUvarint(size, val) ==
    LET bytes == PutUvarint(val)
    IN  IF Len(bytes) <= size
        THEN [val |-> val, buf |-> bytes, n |-> Len(bytes), err |-> Nil]
        ELSE [val |-> val, buf |-> SubSeq(bytes, 1, size), n |-> 0,
              err |-> ErrIndex]

\* the loop of GetUvarintLen after length++ and val /= 128
RECURSIVE LenLoop(_, _)
LenLoop(length, val) ==
    IF val < 1 THEN length ELSE LenLoop(length + 1, val \div 128)
GetUvarintLen(val) == LenLoop(1, val \div 128)

\* the loop of ReadVarint: k bytes have been read, the shift grows by step
\* with every byte; r.Read fails with EOF when the input is used up
RECURSIVE ReadLoop(_, _, _, _, _)
ReadLoop(impl, step, in, k, v) ==
    IF k = 4
    THEN [impl |-> impl, in |-> in, v |-> 0, n |-> 4,
          err |-> ErrVarintTooLong]
    ELSE IF k >= Len(in)
    THEN [impl |-> impl, in |-> in, v |-> v, n |-> k, err |-> ErrEOF]
    ELSE LET b == in[k + 1]
             w == v + (b % 128) * Pow2(step * k)
         IN  IF b < 128
             THEN [impl |-> impl, in |-> in, v |-> w, n |-> k + 1,
                   err |-> Nil]
             ELSE ReadLoop(impl, step, in, k + 1, w)

\* util.ReadVarint: for i := 0; i < 28; i += 7
ReadVarint(in) == ReadLoop("util", 7, in, 0, 0)
\* x/util.ReadVarint: for i := 0; i < 32; i += 8
XReadVarint(in) == ReadLoop("x/util", 8, in, 0, 0)

\* ------------------------------------------ packets on the wire (PacketIO)
MQTTv311 == 4
MQTTv5 == 5
cmdConnAck == 32
cmdPubAck == 64
cmdPubRec == 80
cmdPubRel == 96
cmdPubComp == 112
cmdUnsubAck == 176
cmdPingReq == 192
cmdPingResp == 208
cmdDisconnect == 224
connAckFlagSessionPresent == 1
ErrPacketShort == "malformed packet: length too short"
ErrPacketLong == "malformed packet: length too long"
ErrUnexpectedEOF == "unexpected EOF"
ErrIllegalFlags == "connack: illegal flags"
ErrPayload == "disconnect: unexpected payload"
ErrCommand == "invalid command byte"

\* the packet structs ConnAck, PubAck, PubRec, PubRel, PubComp, UnsubAck,
\* PingReq, PingResp and Disconnect; a field a struct does not have is 0 or
\* FALSE
WirePkt(kind, version, id, sp, rc) ==
    [kind |-> kind, Version |-> version, PacketIdentifier |-> id,
     SessionPresent |-> sp, ReturnCode |-> rc]
NoPacket == WirePkt("none", 0, 0, FALSE, 0)
NoRecv == [of |-> NoPacket, raw |-> <<>>, pkt |-> NoPacket, err |-> Nil]
\* NewPacketIO(conn, version, timeout) on a fresh connection
NewPacketIO(version) == [version |-> version, conn |-> <<>>]

\* binary.BigEndian.PutUint16 and binary.BigEndian.Uint16
PutUint16(v) == <<v \div 256, v % 256>>
Uint16(b) == b[1] * 256 + b[2]

\* MarshalBinary of the nine structs
MarshalBinary(p) ==
    CASE p.kind = "ConnAck" ->
           <<cmdConnAck, 2,
             IF p.SessionPresent THEN connAckFlagSessionPresent ELSE 0,
             p.ReturnCode>>
      [] p.kind = "PubAck" -> <<cmdPubAck, 2>> \o PutUint16(p.PacketIdentifier)
      [] p.kind = "PubRec" -> <<cmdPubRec, 2>> \o PutUint16(p.PacketIdentifier)
      [] p.kind = "PubRel" -> <<cmdPubRel, 2>> \o PutUint16(p.PacketIdentifier)
      [] p.kind = "PubComp" ->
           <<cmdPubComp, 2>> \o PutUint16(p.PacketIdentifier)
      [] p.kind = "UnsubAck" ->
           <<cmdUnsubAck, 2>> \o PutUint16(p.PacketIdentifier)
      [] p.kind = "PingReq" -> <<cmdPingReq, 0>>
      [] p.kind = "PingResp" -> <<cmdPingResp, 0>>
      [] p.kind = "Disconnect" -> <<cmdDisconnect, 0>>

\* r.Read(buf) with len(buf) = size on a connection that holds the bytes
\* conn: the bytes read (the buffer keeps zeroes behind them) and the bytes
\* left.  The call blocks while the connection holds nothing.
ConnRead(conn, size) ==
    LET N == IF Len(conn) < size THEN Len(conn) ELSE size
    IN  [N |-> N,
         buf |-> [k \in 1 .. size |-> IF k <= N THEN conn[k] ELSE 0],
         rest |-> SubSeq(conn, N + 1, Len(conn)),
         blocks |-> conn = <<>>]

\* what a ReadFrom leaves: the struct, the error, the bytes left in the
\* connection, and whether a Read blocked
Decoded(p, err, rest) == [pkt |-> p, err |-> err, rest |-> rest,
                          blocks |-> FALSE]
Blocked(p, conn) == [pkt |-> p, err |-> Nil, rest |-> conn, blocks |-> TRUE]

\* ConnAck.ReadFrom
ConnAckReadFrom(p, conn) ==
    LET rd == ConnRead(conn, 3)
        raw == rd.buf
    IN  IF rd.blocks THEN Blocked(p, conn)
        ELSE IF raw[1] > 2 THEN Decoded(p, ErrPacketLong, rd.rest)
        ELSE IF raw[1] < 2 THEN Decoded(p, ErrPacketShort, rd.rest)
        ELSE IF raw[2] > connAckFlagSessionPresent
        THEN Decoded(p, ErrIllegalFlags, rd.rest)
        ELSE Decoded([p EXCEPT !.SessionPresent = (raw[2] % 2 = 1),
                               !.ReturnCode = raw[3]], Nil, rd.rest)

\* PubAck.ReadFrom, PubRec.ReadFrom, PubRel.ReadFrom and PubComp.ReadFrom:
\* n is the number of bytes the first Read returned
PubAckReadFrom(p, conn) ==
    LET rd == ConnRead(conn, 1)
        n == rd.N
    IN  IF rd.blocks THEN Blocked(p, conn)
        ELSE IF n < 2 THEN Decoded(p, ErrUnexpectedEOF, rd.rest)
        ELSE IF n > 2 THEN Decoded(p, ErrPacketLong, rd.rest)
        ELSE LET rd2 == ConnRead(rd.rest, 2)
             IN  IF rd2.blocks THEN Blocked(p, conn)
                 ELSE Decoded([p EXCEPT !.PacketIdentifier = Uint16(rd2.buf)],
                              Nil, rd2.rest)

\* UnsubAck.ReadFrom: util.ReadVarint reads the remaining length; a Read on a
\* connection that holds nothing blocks
UnsubAckReadFrom(p, conn) ==
    LET rv == ReadVarint(conn)
        remLength == rv.v
        rest == SubSeq(conn, rv.n + 1, Len(conn))
    IN  IF rv.err = ErrEOF THEN Blocked(p, conn)
        ELSE IF rv.err # Nil THEN Decoded(p, rv.err, rest)
        ELSE IF remLength < 2 THEN Decoded(p, ErrPacketShort, rest)
        ELSE IF remLength > 2 THEN Decoded(p, ErrPacketLong, rest)
        ELSE LET rd == ConnRead(rest, 2)
             IN  IF rd.blocks THEN Blocked(p, conn)
                 ELSE Decoded([p EXCEPT !.PacketIdentifier = Uint16(rd.buf)],
                              Nil, rd.rest)

\* PingReq.ReadFrom: N is the number of bytes the Read returned
PingReqReadFrom(p, conn) ==
    LET rd == ConnRead(conn, 1)
    IN  IF rd.blocks THEN Blocked(p, conn)
        ELSE IF rd.N > 0 THEN Decoded(p, ErrPacketLong, rd.rest)
        ELSE Decoded(p, Nil, rd.rest)

\* PingResp.ReadFrom
PingRespReadFrom(p, conn) ==
    LET rd == ConnRead(conn, 1)
    IN  IF rd.blocks THEN Blocked(p, conn)
        ELSE IF rd.buf[1] > 0 THEN Decoded(p, ErrPacketLong, rd.rest)
        ELSE Decoded(p, Nil, rd.rest)

\* Disconnect.ReadFrom
DisconnectReadFrom(p, conn) ==
    LET rd == ConnRead(conn, 1)
    IN  IF rd.blocks THEN Blocked(p, conn)
        ELSE IF rd.buf[1] # 0 THEN Decoded(p, ErrPayload, rd.rest)
        ELSE Decoded(p, Nil, rd.rest)

\* the ReadFrom of the struct that PacketIO.Recv made for the command
PacketReadFrom(kind, p, conn) ==
    CASE kind = "ConnAck" -> ConnAckReadFrom(p, conn)
      [] kind \in {"PubAck", "PubRec", "PubRel", "PubComp"} ->
           PubAckReadFrom(p, conn)
      [] kind = "UnsubAck" -> UnsubAckReadFrom(p, conn)
      [] kind = "PingReq" -> PingReqReadFrom(p, conn)
      [] kind = "PingResp" -> PingRespReadFrom(p, conn)
      [] kind = "Disconnect" -> DisconnectReadFrom(p, conn)

\* switch cmd in PacketIO.Recv, for the commands of the nine structs
KindOf(cmd) ==
    CASE cmd = cmdConnAck -> "ConnAck"
      [] cmd = cmdPubAck -> "PubAck"
      [] cmd = cmdPubRec -> "PubRec"
      [] cmd = cmdPubRel -> "PubRel"
      [] cmd = cmdPubComp -> "PubComp"
      [] cmd = cmdUnsubAck -> "UnsubAck"
      [] cmd = cmdPingReq -> "PingReq"
      [] cmd = cmdPingResp -> "PingResp"
      [] cmd = cmdDisconnect -> "Disconnect"
      [] OTHER -> "none"

\* PacketIO.Recv: the command byte, then the ReadFrom of the struct; an
\* error of ReadFrom is returned with a nil packet
PacketIORecv(io) ==
    LET rd == ConnRead(io.conn, 1)
        cmd == rd.buf[1] - (rd.buf[1] % 16)
        kind == KindOf(cmd)
        r == PacketReadFrom(kind, WirePkt(kind, io.version, 0, FALSE, 0),
                            rd.rest)
    IN  IF rd.blocks THEN Blocked(NoPacket, io.conn)
        ELSE IF kind = "none" THEN Decoded(NoPacket, ErrCommand, rd.rest)
        ELSE IF r.blocks THEN Blocked(NoPacket, io.conn)
        ELSE IF r.err # Nil THEN Decoded(NoPacket, r.err, r.rest)
        ELSE r

\* no task is inside a method of the topicChan
NoAccess == [in |-> [t \in Callers \cup {"reader"} |-> "none"],
             topic |-> [t \in Callers \cup {"reader"} |-> <<>>]]

\* ------------------------------------------------------- PacketIO.Send
\* The tasks that call Send are the caller goroutines and the reader.  A
\* packet goes out in WriteChunks writes of the connection.
\* snd.mutex: the sendMutex channel (capacity 1); snd.pc[t]: where task t is
\* in Send; snd.left[t]: the chunks it has still to write; snd.err[t]: what
\* its last Send returned; snd.wire: the chunks <<task, number>> written
\* since a task last passed the sendMutex
Senders == Callers \cup {"reader"}
DeadlineErr == "deadline error"
NoSend == [mutex |-> <<>>,
           pc |-> [t \in Senders |-> "idle"],
           left |-> [t \in Senders |-> 0],
           err |-> [t \in Senders |-> "none"],
           wire |-> <<>>]

\* p.sendMutex <- struct{}{}; defer func() { <-p.sendMutex }()
SendLock(sn, t) ==
    [sn EXCEPT !.mutex = Append(@, "token"),
               !.pc[t] = "deadline",
               !.err[t] = "none",
               !.wire = <<>>]

\* the deadline error is returned with the sendMutex still taken
SendDeadlineMut(sn, t, set, ok) ==
    IF set /\ ~ok
    THEN [sn EXCEPT !.pc[t] = "idle", !.err[t] = DeadlineErr]
    ELSE [sn EXCEPT !.pc[t] = "write", !.left[t] = WriteChunks]

\* if p.timeout > 0 { if err := p.conn.SetWriteDeadline(...); err != nil {
\* return err } }
SendDeadline(sn, t, set, ok) ==
    IF set /\ ~ok
    THEN [sn EXCEPT !.pc[t] = "unlock", !.err[t] = DeadlineErr]
    ELSE [sn EXCEPT !.pc[t] = "write", !.left[t] = WriteChunks]

\* _, err = pkt.WriteTo(p.conn); return err: one write of the connection
SendWrite(sn, t, ok) ==
    IF ~ok
    THEN [sn EXCEPT !.pc[t] = "unlock", !.left[t] = 0, !.err[t] = SendErr]
    ELSE [sn EXCEPT !.wire = Append(@, <<t, WriteChunks - sn.left[t] + 1>>),
                    !.left[t] = @ - 1,
                    !.pc[t] = IF sn.left[t] = 1 THEN "unlock" ELSE "write",
                    !.err[t] = IF sn.left[t] = 1 THEN Nil ELSE "none"]

\* the deferred <-p.sendMutex
SendUnlock(sn, t) ==
    [sn EXCEPT !.mutex = Tail(@), !.pc[t] = "idle"]

\* --------------------------------------------------- the CONNECT packet
\* A string or []byte is modelled by a name for its content and its length;
\* the first l bytes of it keep the name.  The MQTT 5 properties of the
\* struct are left at their zero values.
connectFlagUsername == 128
connectFlagPassword == 64
connectFlagWillRetain == 32
connectFlagWill == 4
connectFlagCleanSession == 2
ErrConnectQoS == "illegal QoS value (highest: 2)"
ErrTooLarge == "packet too large"
Str(name, len) == [name |-> name, len |-> len]
EmptyStr == Str("", 0)
\* a nil *mqtt.Topic of the options and the zero mqtt.Topic of the struct
NoTopic == [Name |-> EmptyStr, QoS |-> 0]
NoOptions == [Username |-> EmptyStr, Password |-> EmptyStr,
              CleanSession |-> FALSE, WillTopic |-> NoTopic,
              WillMessage |-> EmptyStr, WillRetain |-> FALSE]
NoStruct == [Version |-> 0, ClientID |-> EmptyStr, CleanSession |-> FALSE,
             Username |-> EmptyStr, Password |-> EmptyStr,
             WillTopic |-> NoTopic, WillMessage |-> EmptyStr,
             WillRetain |-> FALSE]
NoBinary == [err |-> Nil, flags |-> 0, remLen |-> 0, size |-> 0,
             ClientID |-> EmptyStr, WillTopic |-> EmptyStr,
             WillMessage |-> EmptyStr, Username |-> EmptyStr,
             Password |-> EmptyStr, made |-> FALSE]
NoConnect == [options |-> NoOptions, pkt |-> NoStruct, out |-> NoBinary]

\* conn := &packets.Connect{...} and the loop over the options in
\* Client.Connect; an option that is not set is a nil pointer
NewConnect(version, clientID, opt) ==
    [NoStruct EXCEPT !.Version = version, !.ClientID = clientID,
                     !.CleanSession = opt.CleanSession,
                     !.Username = opt.Username, !.Password = opt.Password]

\* uint16(len(v))
Uint16Len(v) == v.len % 65536

\* util.EncodeValue(b, v) for a string or a []byte: the length prefix l and
\* the bytes v[:int(l)] it copies
EncodeValue(v) == Str(v.name, Uint16Len(v))

\* Connect.computeFlagsAndLen; an empty ClientID is replaced by a UUID
computeFlagsAndLen(c) ==
    LET user == c.Username # EmptyStr
        pass == /\ c.Password # EmptyStr
                /\ (user \/ c.Version >= MQTTv5)
        will == c.WillTopic.Name # EmptyStr
        id == IF c.ClientID.len = 0 THEN Str("uuid", 36) ELSE c.ClientID
    IN  [flags |-> (IF c.CleanSession THEN connectFlagCleanSession ELSE 0)
                   + (IF user THEN connectFlagUsername ELSE 0)
                   + (IF pass THEN connectFlagPassword ELSE 0)
                   + (IF will THEN c.WillTopic.QoS * 8 + connectFlagWill
                      ELSE 0)
                   + (IF will /\ c.WillRetain THEN connectFlagWillRetain
                      ELSE 0),
         length |-> 10
                   + (IF user THEN Uint16Len(c.Username) + 2 ELSE 0)
                   + (IF pass THEN Uint16Len(c.Password) + 2 ELSE 0)
                   + (IF will THEN Uint16Len(c.WillTopic.Name)
                                   + Uint16Len(c.WillMessage) + 4
                      ELSE 0)
                   + Uint16Len(id) + 2,
         ClientID |-> id]

\* Connect.MarshalBinary: the error, and of the bytes b their number, the
\* flags, the remaining length and the value written for every field
ConnectMarshalBinary(c) ==
    LET fl == computeFlagsAndLen(c)
        remLen == fl.length + (IF c.Version >= MQTTv5
                               THEN (IF c.WillTopic.Name # EmptyStr
                                     THEN 2 ELSE 1)
                               ELSE 0)
        remLenSize == GetUvarintLen(remLen)
        will == c.WillTopic.Name # EmptyStr
    IN  IF c.WillTopic.QoS > 2
        THEN [NoBinary EXCEPT !.err = ErrConnectQoS, !.made = TRUE]
        ELSE IF remLenSize > 4
        THEN [NoBinary EXCEPT !.err = ErrTooLarge, !.made = TRUE]
        ELSE [err |-> Nil, flags |-> fl.flags, remLen |-> remLen,
              size |-> remLen + remLenSize + 1,
              ClientID |-> EncodeValue(fl.ClientID),
              WillTopic |-> IF will THEN EncodeValue(c.WillTopic.Name)
                            ELSE EmptyStr,
              WillMessage |-> IF will THEN EncodeValue(c.WillMessage)
                              ELSE EmptyStr,
              Username |-> IF c.Username # EmptyStr
                           THEN EncodeValue(c.Username) ELSE EmptyStr,
              Password |-> IF /\ c.Password # EmptyStr
                              /\ \/ c.Username # EmptyStr
                                 \/ c.Version = MQTTv5
                           THEN EncodeValue(c.Password) ELSE EmptyStr,
              made |-> TRUE]

\* a goroutine panicked: the process is gone
Alive == \A c \in Callers : pc[c] # "panic"

Init ==
    /\ packetIDCounter \in Ids
    /\ pendingPackets = [i \in Ids |-> NoEntry]
    /\ ackChan = [i \in Ids |-> NoChan]
    /\ chans = [x \in ChanIds |-> <<>>]
    /\ errChan = <<>>
    /\ connAck = <<>>
    /\ pingResp = <<>>
    /\ subs = [f \in Filters |-> Absent]
    /\ sinkBuf = [s \in Sinks |-> 0]
    /\ pc = [c \in Callers |-> "idle"]
    /\ op = [c \in Callers |-> NoOp]
    /\ pid = [c \in Callers |-> 0]
    /\ tries = [c \in Callers |-> 0]
    /\ achan = [c \in Callers |-> NoChan]
    /\ got = [c \in Callers |-> NoPkt]
    /\ result = [c \in Callers |-> NoResult]
    /\ rpc = "recv"
    /\ rpkt = NoPkt
    /\ rchan = NoChan
    /\ rerr = Nil
    /\ hist = NoHist
    /\ topicTree = EmptyTree
    /\ rcall = NoCall
    /\ registered = {}
    /\ venc = NoEnc
    /\ vdec = NoDec
    /\ pio = NewPacketIO(MQTTv311)
    /\ sent = NoPacket
    /\ recvd = NoRecv
    /\ cenc = NoConnect
    /\ snd = NoSend
    /\ acc = NoAccess

\* ------------------------------------------------------------ aquirePacketID
\* an unknown QoS is handled like QoS1
AfterAcquireMut(o) ==
    CASE o.name = "Subscribe" -> "sub_new"
      [] o.name = "Unsubscribe" -> "uns_new"
      [] o.name = "Publish" /\ o.qos = 0 -> "pub_send"
      [] o.name = "Publish" /\ o.qos = 1 -> "pub_add"
      [] o.name = "Publish" /\ o.qos = 2 -> "pub_new"
      [] OTHER -> "pub_add"
\* where the caller continues once aquirePacketID has returned
AfterAcquire(o) ==
    CASE o.name = "Subscribe" -> "sub_new"
      [] o.name = "Unsubscribe" -> "uns_new"
      [] o.name = "Publish" /\ o.qos = 0 -> "pub_send"
      [] o.name = "Publish" /\ o.qos = 1 -> "pub_add"
      [] o.name = "Publish" /\ o.qos = 2 -> "pub_new"
      [] OTHER -> "pub_illegal"

\* newVal := atomic.AddUint32(&c.packetIDCounter, 1); ret := uint16(newVal)
NextID(counter) == (counter + 1) % IdSpace

\* a call of Publish, Subscribe or Unsubscribe enters aquirePacketID and runs
\* the first atomic add
Begin(c, o) ==
    /\ Alive
    /\ pc[c] = "idle"
    /\ packetIDCounter' = NextID(packetIDCounter)
    /\ op' = [op EXCEPT ![c] = o]
    /\ pid' = [pid EXCEPT ![c] = NextID(packetIDCounter)]
    /\ tries' = [tries EXCEPT ![c] = 0]
    /\ got' = [got EXCEPT ![c] = NoPkt]
    /\ result' = [result EXCEPT ![c] = NoResult]
    /\ pc' = [pc EXCEPT ![c] = "acq_pend"]
    /\ UNCHANGED <<pendingPackets, ackChan, chans, achan>>
    /\ UNCHANGED <<signals, router, readerVars>>

\* continue: i++ and, while i < 65535, the next atomic add; else the panic
AcqContinue(c) ==
    IF tries[c] + 1 < IdSpace - 1
    THEN /\ packetIDCounter' = NextID(packetIDCounter)
         /\ pid' = [pid EXCEPT ![c] = NextID(packetIDCounter)]
         /\ tries' = [tries EXCEPT ![c] = @ + 1]
         /\ pc' = [pc EXCEPT ![c] = "acq_pend"]
    ELSE /\ pc' = [pc EXCEPT ![c] = "panic"]
         /\ UNCHANGED <<packetIDCounter, pid, tries>>

\* if _, ok := c.pendingPackets.Get(ret); ok { continue }
AcqPending(c) ==
    /\ Alive
    /\ pc[c] = "acq_pend"
    /\ IF HasPacket(pendingPackets, pid[c])
       THEN AcqContinue(c)
       ELSE /\ pc' = [pc EXCEPT ![c] = "acq_ack"]
            /\ UNCHANGED <<packetIDCounter, pid, tries>>
    /\ UNCHANGED <<pendingPackets, ackChan, chans, op, achan, got, result>>
    /\ UNCHANGED <<signals, router, readerVars, hist, libVars>>

\* else if _, ok := c.ackChan.Get(ret); ok { continue } else { return ret }
AcqAckChan(c) ==
    /\ Alive
    /\ pc[c] = "acq_ack"
    /\ IF HasChan(ackChan, pid[c])
       THEN AcqContinue(c)
       ELSE /\ pc' = [pc EXCEPT ![c] = AfterAcquire(op[c])]
            /\ tries' = [tries EXCEPT ![c] = 0]
            /\ UNCHANGED <<packetIDCounter, pid>>
    /\ UNCHANGED <<pendingPackets, ackChan, chans, op, achan, got, result>>
    /\ UNCHANGED <<signals, router, readerVars, hist, libVars>>

\* ------------------------------------------------ returning from an operation
\* the operation returns err: its arguments and locals go out of scope
Return(c, name, err) ==
    /\ pc' = [pc EXCEPT ![c] = "idle"]
    /\ result' = [result EXCEPT ![c] = [op |-> name, err |-> err]]
    /\ op' = [op EXCEPT ![c] = NoOp]
    /\ pid' = [pid EXCEPT ![c] = 0]
    /\ got' = [got EXCEPT ![c] = NoPkt]
    /\ achan' = [achan EXCEPT ![c] = NoChan]

\* packetChanMap.New: false when the key exists, else a new channel of cap. 1
PacketChanMapNew(c) ==
    IF HasChan(ackChan, pid[c])
    THEN UNCHANGED <<ackChan, chans>>
    ELSE /\ ackChan' = [ackChan EXCEPT ![pid[c]] = FreshChan]
         /\ chans' = [chans EXCEPT ![FreshChan] = <<>>]

\* ackChan, _ := c.ackChan.Get(packetID): nil when the key is gone
PacketChanMapGet(i) == ackChan[i]

\* the return of an operation that leaves its waiter in the table
DelAndReturnMut(c) ==
    /\ ackChan' = ackChan
    /\ Return(c, result[c].op, result[c].err)
    /\ chans' = Collect(chans, ackChan', achan', rchan)
    /\ UNCHANGED <<packetIDCounter, pendingPackets, tries>>
    /\ UNCHANGED <<signals, router, readerVars>>
\* the deferred / trailing c.ackChan.Del(packetID) followed by the return
DelAndReturn(c) ==
    /\ ackChan' = PacketChanMapDel(ackChan, pid[c])
    /\ Return(c, result[c].op, result[c].err)
    /\ chans' = Collect(chans, ackChan', achan', rchan)
    /\ UNCHANGED <<packetIDCounter, pendingPackets, tries>>
    /\ UNCHANGED <<signals, router, readerVars>>

\* ------------------------------------------------------------------- Publish
PublishBegin(c, q) ==
    /\ Begin(c, [name |-> "Publish", qos |-> q, topics |-> <<>>])
    /\ UNCHANGED <<hist, libVars>>

\* default: return mqtt.ErrIllegalQoS
PubIllegal(c) ==
    /\ Alive
    /\ pc[c] = "pub_illegal"
    /\ Return(c, "Publish", "ErrIllegalQoS")
    /\ UNCHANGED <<tables, tries>>
    /\ UNCHANGED <<signals, router, readerVars, hist, libVars>>

\* case mqtt.QoS2: c.ackChan.New(packetID); defer c.ackChan.Del(packetID)
PubNew(c) ==
    /\ Alive
    /\ pc[c] = "pub_new"
    /\ PacketChanMapNew(c)
    /\ pc' = [pc EXCEPT ![c] = "pub_add"]
    /\ UNCHANGED <<packetIDCounter, pendingPackets, op, pid, tries, achan,
                   got, result>>
    /\ UNCHANGED <<signals, router, readerVars, hist, libVars>>

\* Publish without c.pendingPackets.Add: the PUBLISH is written unrecorded
PubAddMut(c) ==
    /\ Alive
    /\ pc[c] = "pub_add"
    /\ pc' = [pc EXCEPT ![c] = "pub_send"]
    /\ UNCHANGED <<pendingPackets, packetIDCounter, ackChan, chans, op, pid,
                   tries, achan, got, result>>
    /\ UNCHANGED <<signals, router, readerVars, hist, libVars>>

\* case mqtt.QoS1 (and fallthrough): c.pendingPackets.Add(packetID, pub)
PubAdd(c) ==
    /\ Alive
    /\ pc[c] = "pub_add"
    /\ pendingPackets' =
           PacketMapAdd(pendingPackets, pid[c], PendPublish(op[c].qos))
    /\ pc' = [pc EXCEPT ![c] = "pub_send"]
    /\ UNCHANGED <<packetIDCounter, ackChan, chans, op, pid, tries, achan,
                   got, result>>
    /\ UNCHANGED <<signals, router, readerVars, hist, libVars>>

\* a Publish that takes its PUBLISH out of the pending table when the write
\* failed
PubSendMut(c, ok) ==
    /\ Alive
    /\ pc[c] = "pub_send"
    /\ IF op[c].qos = 2
       THEN /\ pc' = [pc EXCEPT ![c] = IF ok THEN "pub_get" ELSE "pub_del"]
            /\ result' = [result EXCEPT ![c] =
                  [op |-> "Publish", err |-> IF ok THEN Nil ELSE SendErr]]
            /\ UNCHANGED <<op, pid, got, achan>>
       ELSE Return(c, "Publish", IF ok THEN Nil ELSE SendErr)
    /\ pendingPackets' =
           IF ok THEN pendingPackets ELSE PacketMapDel(pendingPackets, pid[c])
    /\ UNCHANGED <<packetIDCounter, ackChan, chans, tries>>
    /\ UNCHANGED <<signals, router, readerVars, hist, libVars>>
\* err := c.io.Send(pub); at QoS0 and QoS1, and on an error, return err
PubSend(c, ok) ==
    /\ Alive
    /\ pc[c] = "pub_send"
    /\ IF op[c].qos = 2
       THEN /\ pc' = [pc EXCEPT ![c] = IF ok THEN "pub_get" ELSE "pub_del"]
            /\ result' = [result EXCEPT ![c] =
                  [op |-> "Publish", err |-> IF ok THEN Nil ELSE SendErr]]
            /\ UNCHANGED <<op, pid, got, achan>>
       ELSE Return(c, "Publish", IF ok THEN Nil ELSE SendErr)
    /\ UNCHANGED <<tables, tries>>
    /\ UNCHANGED <<signals, router, readerVars, hist, libVars>>

\* ackChan, _ := c.ackChan.Get(packetID)
PubGet(c) ==
    /\ Alive
    /\ pc[c] = "pub_get"
    /\ achan' = [achan EXCEPT ![c] = PacketChanMapGet(pid[c])]
    /\ pc' = [pc EXCEPT ![c] = "pub_wait"]
    /\ UNCHANGED <<tables, op, pid, tries, got, result>>
    /\ UNCHANGED <<signals, router, readerVars, hist, libVars>>

\* <-ackChan: blocks until the channel holds a packet (for ever on nil)
PubWait(c) ==
    /\ Alive
    /\ pc[c] = "pub_wait"
    /\ achan[c] # NoChan
    /\ chans[achan[c]] # <<>>
    /\ got' = [got EXCEPT ![c] = Head(chans[achan[c]])]
    /\ chans' = [chans EXCEPT ![achan[c]] = Tail(@)]
    /\ pc' = [pc EXCEPT ![c] = "pub_del"]
    /\ UNCHANGED <<packetIDCounter, pendingPackets, ackChan, op, pid, tries,
                   achan, result>>
    /\ UNCHANGED <<signals, router, readerVars, hist, libVars>>

\* the deferred c.ackChan.Del(packetID) of a QoS2 publish, then return err
PubDel(c) ==
    /\ Alive
    /\ pc[c] = "pub_del"
    /\ DelAndReturn(c)
    /\ UNCHANGED <<hist, libVars>>

\* -------------------------------------------------------------------- subMap
\* c.subs.Add(name, recv): one sink per filter, the last one wins
SubMapAdd(m, f, s) == [m EXCEPT ![f] = s]
\* c.subs.Del(name)
SubMapDel(m, f) == [m EXCEPT ![f] = Absent]
\* c.subs.Get(topic) for filters without wildcards: the filter equal to topic
SubMapGet(m, t) == IF t \in DOMAIN m THEN m[t] ELSE Absent

RECURSIVE AddAll(_, _)
\* for i, topic := range topics { c.subs.Add(topic.Name, topic.Recv) }
AddAll(m, topics) ==
    IF topics = <<>> THEN m
    ELSE AddAll(SubMapAdd(m, Head(topics).name, Head(topics).sink),
                Tail(topics))

\* a filter is rolled back when the server answered a code above every QoS
BadStatusMut(status) == status >= 2
\* status > 2
BadStatus(status) == status > 2

\* the first index at which the rollback loop of Subscribe reads topics[i]
\* out of range, 0 when there is none
FirstOutOfRange(topics, codes) ==
    IF \E i \in 1 .. Len(codes) : i > Len(topics) /\ BadStatus(codes[i])
    THEN CHOOSE i \in 1 .. Len(codes) :
           /\ i > Len(topics) /\ BadStatus(codes[i])
           /\ \A j \in 1 .. (i - 1) :
                  ~(j > Len(topics) /\ BadStatus(codes[j]))
    ELSE 0

RECURSIVE RollBack(_, _, _, _)
\* for i, status := range statusCodes {
\*     if status > 2 { c.subs.Del(topics[i].Name) } }
RollBack(m, topics, codes, i) ==
    IF i > Len(codes) \/ i > Len(topics) THEN m
    ELSE RollBack(IF BadStatus(codes[i]) THEN SubMapDel(m, topics[i].name)
                  ELSE m, topics, codes, i + 1)

\* ----------------------------------------------------------------- Subscribe
SubscribeBegin(c, topics) ==
    /\ Begin(c, [name |-> "Subscribe", qos |-> 0, topics |-> topics])
    /\ UNCHANGED <<hist, libVars>>

\* c.ackChan.New(packetID); defer c.ackChan.Del(packetID)
SubNew(c) ==
    /\ Alive
    /\ pc[c] = "sub_new"
    /\ PacketChanMapNew(c)
    /\ pc' = [pc EXCEPT ![c] = "sub_add"]
    /\ UNCHANGED <<packetIDCounter, pendingPackets, op, pid, tries, achan,
                   got, result>>
    /\ UNCHANGED <<signals, router, readerVars, hist, libVars>>

\* the loop that reserves the receive channels
SubAdd(c) ==
    /\ Alive
    /\ pc[c] = "sub_add"
    /\ subs' = AddAll(subs, op[c].topics)
    /\ UNCHANGED libVars
    /\ hist' = [hist EXCEPT !.unsubbed =
                   @ \ {op[c].topics[i].name : i \in 1 .. Len(op[c].topics)}]
    /\ pc' = [pc EXCEPT ![c] = "sub_send"]
    /\ UNCHANGED <<tables, op, pid, tries, achan, got, result>>
    /\ UNCHANGED <<signals, sinkBuf, readerVars>>

\* err := c.io.Send(sub); if err != nil { return nil, err }
SubSend(c, ok) ==
    /\ Alive
    /\ pc[c] = "sub_send"
    /\ pc' = [pc EXCEPT ![c] = IF ok THEN "sub_get" ELSE "sub_del"]
    /\ result' = [result EXCEPT ![c] =
          [op |-> "Subscribe", err |-> IF ok THEN Nil ELSE SendErr]]
    /\ UNCHANGED <<tables, op, pid, tries, achan, got>>
    /\ UNCHANGED <<signals, router, readerVars, hist, libVars>>

\* ackChan, _ := c.ackChan.Get(packetID)
SubGet(c) ==
    /\ Alive
    /\ pc[c] = "sub_get"
    /\ achan' = [achan EXCEPT ![c] = PacketChanMapGet(pid[c])]
    /\ pc' = [pc EXCEPT ![c] = "sub_wait"]
    /\ UNCHANGED <<tables, op, pid, tries, got, result>>
    /\ UNCHANGED <<signals, router, readerVars, hist, libVars>>

\* select { case ack := <-ackChan: ... }: a SubAck goes on to the rollback
\* loop, anything else returns ErrInternalConflict
SubWaitAck(c) ==
    /\ Alive
    /\ pc[c] = "sub_wait"
    /\ achan[c] # NoChan
    /\ chans[achan[c]] # <<>>
    /\ LET ack == Head(chans[achan[c]]) IN
         /\ got' = [got EXCEPT ![c] = ack]
         /\ IF ack.kind = "SubAck"
            THEN /\ pc' = [pc EXCEPT ![c] = "sub_roll"]
                 /\ UNCHANGED result
            ELSE /\ pc' = [pc EXCEPT ![c] = "sub_del"]
                 /\ result' = [result EXCEPT ![c].err = "ErrInternalConflict"]
    /\ chans' = [chans EXCEPT ![achan[c]] = Tail(@)]
    /\ UNCHANGED <<packetIDCounter, pendingPackets, ackChan, op, pid, tries,
                   achan>>
    /\ UNCHANGED <<signals, router, readerVars, hist, libVars>>

\* select { case err := <-c.errChan: ... }
SubWaitErr(c) ==
    /\ Alive
    /\ pc[c] = "sub_wait"
    /\ errChan # <<>>
    /\ got' = [got EXCEPT ![c] = ErrorValue]
    /\ result' = [result EXCEPT ![c].err = Head(errChan)]
    /\ errChan' = Tail(errChan)
    /\ pc' = [pc EXCEPT ![c] = "sub_repost"]
    /\ UNCHANGED <<tables, op, pid, tries, achan>>
    /\ UNCHANGED <<connAck, pingResp, router, readerVars, hist, libVars>>

\* c.errChan <- err (a blocking send); return nil, err
SubRepost(c) ==
    /\ Alive
    /\ pc[c] = "sub_repost"
    /\ Len(errChan) < ChanCap
    /\ errChan' = Append(errChan, result[c].err)
    /\ pc' = [pc EXCEPT ![c] = "sub_del"]
    /\ UNCHANGED <<tables, op, pid, tries, achan, got, result>>
    /\ UNCHANGED <<connAck, pingResp, router, readerVars, hist, libVars>>

\* the loop that removes the subscribe channels with a bad status code;
\* topics[i] with i out of range panics
SubRoll(c) ==
    /\ Alive
    /\ pc[c] = "sub_roll"
    /\ LET topics == op[c].topics
           codes == got[c].codes
           oor == FirstOutOfRange(topics, codes)
       IN /\ subs' = RollBack(subs, topics, codes, 1)
          /\ pc' = [pc EXCEPT ![c] = IF oor = 0 THEN "sub_del" ELSE "panic"]
    /\ UNCHANGED <<tables, op, pid, tries, achan, got, result>>
    /\ UNCHANGED <<signals, sinkBuf, readerVars, hist, libVars>>

\* the deferred c.ackChan.Del(packetID), then the return
SubDel(c) ==
    /\ Alive
    /\ pc[c] = "sub_del"
    /\ DelAndReturn(c)
    /\ UNCHANGED <<hist, libVars>>

\* --------------------------------------------------------------- Unsubscribe
UnsubscribeBegin(c, names) ==
    /\ Begin(c, [name |-> "Unsubscribe", qos |-> 0, topics |-> names])
    /\ UNCHANGED <<hist, libVars>>

\* c.ackChan.New(packetID)
UnsNew(c) ==
    /\ Alive
    /\ pc[c] = "uns_new"
    /\ PacketChanMapNew(c)
    /\ pc' = [pc EXCEPT ![c] = "uns_send"]
    /\ UNCHANGED <<packetIDCounter, pendingPackets, op, pid, tries, achan,
                   got, result>>
    /\ UNCHANGED <<signals, router, readerVars, hist, libVars>>

\* Unsubscribe waits for the UNSUBACK whatever c.io.Send returned
UnsSendMut(c, ok) ==
    /\ Alive
    /\ pc[c] = "uns_send"
    /\ pc' = [pc EXCEPT ![c] = "uns_get"]
    /\ result' = [result EXCEPT ![c] =
          [op |-> "Unsubscribe", err |-> IF ok THEN Nil ELSE SendErr]]
    /\ UNCHANGED <<tables, op, pid, tries, achan, got>>
    /\ UNCHANGED <<signals, router, readerVars, hist, libVars>>
\* err := c.io.Send(p)
UnsSend(c, ok) ==
    /\ Alive
    /\ pc[c] = "uns_send"
    /\ pc' = [pc EXCEPT ![c] = IF ok THEN "uns_get" ELSE "uns_del"]
    /\ result' = [result EXCEPT ![c] =
          [op |-> "Unsubscribe", err |-> IF ok THEN Nil ELSE SendErr]]
    /\ UNCHANGED <<tables, op, pid, tries, achan, got>>
    /\ UNCHANGED <<signals, router, readerVars, hist, libVars>>

\* ackChan, _ := c.ackChan.Get(packetID)
UnsGet(c) ==
    /\ Alive
    /\ pc[c] = "uns_get"
    /\ achan' = [achan EXCEPT ![c] = PacketChanMapGet(pid[c])]
    /\ pc' = [pc EXCEPT ![c] = "uns_wait"]
    /\ UNCHANGED <<tables, op, pid, tries, got, result>>
    /\ UNCHANGED <<signals, router, readerVars, hist, libVars>>

\* <-ackChan
UnsWait(c) ==
    /\ Alive
    /\ pc[c] = "uns_wait"
    /\ achan[c] # NoChan
    /\ chans[achan[c]] # <<>>
    /\ got' = [got EXCEPT ![c] = Head(chans[achan[c]])]
    /\ chans' = [chans EXCEPT ![achan[c]] = Tail(@)]
    /\ pc' = [pc EXCEPT ![c] = "uns_del"]
    /\ UNCHANGED <<packetIDCounter, pendingPackets, ackChan, op, pid, tries,
                   achan, result>>
    /\ UNCHANGED <<signals, router, readerVars, hist, libVars>>

\* c.ackChan.Del(packetID); return err
UnsDel(c) ==
    /\ Alive
    /\ pc[c] = "uns_del"
    /\ DelAndReturn(c)
    /\ UNCHANGED libVars
    /\ hist' = [hist EXCEPT !.unsubbed =
          IF result[c].err = Nil
          THEN @ \cup {op[c].topics[i] : i \in 1 .. Len(op[c].topics)}
          ELSE @]

\* ------------------------------------------------------------------- Connect
\* the switch without its default case: an unknown return code falls out of
\* the select and Connect returns nil
ConnectReturnMut(rc) ==
    CASE rc = ConnAckAccepted -> Nil
      [] rc = ConnAckBadVersion -> "ErrConnectBadVersion"
      [] rc = ConnAckIDNotAllowed -> "ErrConnectIDNotAllowed"
      [] rc = ConnAckServerUnavail -> "ErrConnectUnavailable"
      [] rc = ConnAckBadCredentials -> "ErrConnectCredentials"
      [] rc = ConnAckUnauthorized -> "ErrConnectUnauthorized"
      [] OTHER -> Nil
\* the switch on connAck.ReturnCode
ConnectReturn(rc) ==
    CASE rc = ConnAckAccepted -> Nil
      [] rc = ConnAckBadVersion -> "ErrConnectBadVersion"
      [] rc = ConnAckIDNotAllowed -> "ErrConnectIDNotAllowed"
      [] rc = ConnAckServerUnavail -> "ErrConnectUnavailable"
      [] rc = ConnAckBadCredentials -> "ErrConnectCredentials"
      [] rc = ConnAckUnauthorized -> "ErrConnectUnauthorized"
      [] OTHER -> "ErrIllegalResponse"

\* a call without packet id (Connect, Ping) starts with its c.io.Send
BeginSend(c, name, ok, waitpc) ==
    /\ Alive
    /\ pc[c] = "idle"
    /\ IF ok
       THEN /\ pc' = [pc EXCEPT ![c] = waitpc]
            /\ op' = [op EXCEPT ![c] =
                         [name |-> name, qos |-> 0, topics |-> <<>>]]
            /\ result' = [result EXCEPT ![c] = NoResult]
       ELSE /\ result' = [result EXCEPT ![c] =
                             [op |-> name, err |-> SendErr]]
            /\ UNCHANGED <<pc, op>>
    /\ UNCHANGED <<tables, pid, got, tries, achan>>
    /\ UNCHANGED <<signals, router, readerVars, hist, libVars>>

\* err := c.io.Send(conn); if err != nil { return err }
ConnectBegin(c, ok) == BeginSend(c, "Connect", ok, "con_wait")

\* select { case connAck := <-c.connAck: switch connAck.ReturnCode ... }
ConWaitAck(c) ==
    /\ Alive
    /\ pc[c] = "con_wait"
    /\ connAck # <<>>
    /\ connAck' = Tail(connAck)
    /\ Return(c, "Connect", ConnectReturn(Head(connAck).rc))
    /\ UNCHANGED <<tables, tries>>
    /\ UNCHANGED <<errChan, pingResp, router, readerVars, hist, libVars>>

\* select { case err := <-c.errChan: return err }
ConWaitErr(c) ==
    /\ Alive
    /\ pc[c] = "con_wait"
    /\ errChan # <<>>
    /\ errChan' = Tail(errChan)
    /\ Return(c, "Connect", Head(errChan))
    /\ UNCHANGED <<tables, tries>>
    /\ UNCHANGED <<connAck, pingResp, router, readerVars, hist, libVars>>

\* ---------------------------------------------------------------- Disconnect
\* err = c.io.Send(dc); the deferred function runs before the return
DisconnectBegin(c, ok) ==
    /\ Alive
    /\ pc[c] = "idle"
    /\ pc' = [pc EXCEPT ![c] = "dis_close"]
    /\ op' = [op EXCEPT ![c] = [name |-> "Disconnect", qos |-> 0,
                                 topics |-> <<>>]]
    /\ result' = [result EXCEPT ![c] =
          [op |-> "Disconnect", err |-> IF ok THEN Nil ELSE SendErr]]
    /\ UNCHANGED <<tables, pid, got, tries, achan>>
    /\ UNCHANGED <<signals, router, readerVars, hist, libVars>>

\* the closing function overwrites the error of the send
DeferredErrMut(err, errClose) == errClose
\* if err == nil { err = errClose }
DeferredErr(err, errClose) == IF err = Nil THEN errClose ELSE err

\* defer func() { errClose := c.io.Close(); ... }(); return
DisClose(c, errClose) ==
    /\ Alive
    /\ pc[c] = "dis_close"
    /\ UNCHANGED libVars
    /\ hist' = [hist EXCEPT !.closed = TRUE, !.closeErr = errClose]
    /\ Return(c, "Disconnect", DeferredErr(result[c].err, errClose))
    /\ UNCHANGED <<tables, tries>>
    /\ UNCHANGED <<signals, router, readerVars>>

\* ---------------------------------------------------------------------- Ping
\* err := c.io.Send(p); if err != nil { return err }
PingBegin(c, ok) == BeginSend(c, "Ping", ok, "ping_wait")

\* select { case <-c.pingResp: }; return nil
PingWaitResp(c) ==
    /\ Alive
    /\ pc[c] = "ping_wait"
    /\ pingResp # <<>>
    /\ pingResp' = Tail(pingResp)
    /\ Return(c, "Ping", Nil)
    /\ UNCHANGED <<tables, tries>>
    /\ UNCHANGED <<errChan, connAck, router, readerVars, hist, libVars>>

\* select { case err := <-c.errChan: ... }
PingWaitErr(c) ==
    /\ Alive
    /\ pc[c] = "ping_wait"
    /\ errChan # <<>>
    /\ got' = [got EXCEPT ![c] = ErrorValue]
    /\ result' = [result EXCEPT ![c] =
          [op |-> "Ping", err |-> Head(errChan)]]
    /\ errChan' = Tail(errChan)
    /\ pc' = [pc EXCEPT ![c] = "ping_repost"]
    /\ UNCHANGED <<tables, op, pid, tries, achan>>
    /\ UNCHANGED <<connAck, pingResp, router, readerVars, hist, libVars>>

\* select { case c.errChan <- err: default: }; return err
PingRepost(c) ==
    /\ Alive
    /\ pc[c] = "ping_repost"
    /\ errChan' = IF Len(errChan) < ChanCap
                  THEN Append(errChan, result[c].err) ELSE errChan
    /\ Return(c, "Ping", result[c].err)
    /\ UNCHANGED <<tables, tries>>
    /\ UNCHANGED <<connAck, pingResp, router, readerVars, hist, libVars>>

\* --------------------------------------------------------------- recvRoutine
\* Every action that starts at rpc = "recv" is one c.io.Recv() together with
\* the first operation of the case that dispatches the packet.  While the
\* reader is back in Recv, rpkt names the packet it dispatched last.

\* kind, packet id, QoS and topic of p
Seen(p) == Pkt(p.kind, p.id, p.qos, p.topic, <<>>, 0)

Dispatching == Alive /\ rpc = "recv"
\* c.io.Recv has returned: nothing is written since
Received == [hist EXCEPT !.wire = <<>>]
\* c.io.Send has written packet p
Sent(p) == [hist EXCEPT !.wire = Append(@, p)]

\* err == io.EOF: return
RRecvEOF ==
    /\ Dispatching
    /\ rpc' = "done"
    /\ UNCHANGED <<rpkt, rchan, rerr>>
    /\ hist' = Received
    /\ UNCHANGED <<tables, signals, router, callerVars, libVars>>

\* the reader is about to push e on the error channel and return
Fatal(e) ==
    /\ rpc' = "r_fatal"
    /\ rerr' = e

\* err != nil: c.errChan <- err; return
RRecvErr ==
    /\ Dispatching
    /\ Fatal(RecvErr)
    /\ UNCHANGED <<rpkt, rchan>>
    /\ hist' = Received
    /\ UNCHANGED <<tables, signals, router, callerVars, libVars>>

\* default: c.errChan <- ErrIllegalResponse; return
RRecvOther ==
    /\ Dispatching
    /\ Fatal("ErrIllegalResponse")
    /\ rpkt' = OtherPkt
    /\ UNCHANGED rchan
    /\ hist' = Received
    /\ UNCHANGED <<tables, signals, router, callerVars, libVars>>

\* c.errChan <- err (a blocking send on a channel of capacity 1); return
RFatal ==
    /\ Alive
    /\ rpc = "r_fatal"
    /\ Len(errChan) < ChanCap
    /\ errChan' = Append(errChan, rerr)
    /\ rpc' = "done"
    /\ UNCHANGED <<rpkt, rchan, rerr>>
    /\ UNCHANGED <<tables, connAck, pingResp, router, callerVars, hist, libVars>>

\* case *packets.PingResp / *packets.ConnAck: Recv returned the packet
RRecvSignal(p) ==
    /\ Dispatching
    /\ rpkt' = p
    /\ rpc' = IF p.kind = "ConnAck" THEN "r_connack" ELSE "r_pingresp"
    /\ UNCHANGED <<rchan, rerr>>
    /\ hist' = Received
    /\ UNCHANGED <<tables, signals, router, callerVars, libVars>>

\* c.pingResp <- packet (blocking)
RPingResp ==
    /\ Alive
    /\ rpc = "r_pingresp"
    /\ Len(pingResp) < ChanCap
    /\ pingResp' = Append(pingResp, rpkt)
    /\ rpc' = "recv"
    /\ rpkt' = Seen(rpkt)
    /\ UNCHANGED <<rchan, rerr>>
    /\ UNCHANGED <<tables, errChan, connAck, router, callerVars, hist, libVars>>

\* c.connAck <- packet (blocking)
RConnAck ==
    /\ Alive
    /\ rpc = "r_connack"
    /\ Len(connAck) < ChanCap
    /\ connAck' = Append(connAck, rpkt)
    /\ rpc' = "recv"
    /\ rpkt' = Seen(rpkt)
    /\ UNCHANGED <<rchan, rerr>>
    /\ UNCHANGED <<tables, errChan, pingResp, router, callerVars, hist, libVars>>

\* the lookup under another packet id: the successor of the packet's id
RAckMut(p) ==
    /\ Dispatching
    /\ IF HasChan(ackChan, NextID(p.id))
       THEN /\ rchan' = PacketChanMapGet(NextID(p.id))
            /\ rpc' = "r_ack_send"
            /\ rpkt' = p
       ELSE /\ rpkt' = Seen(p)
            /\ UNCHANGED <<rpc, rchan>>
    /\ UNCHANGED rerr
    /\ hist' = Received
    /\ UNCHANGED <<tables, signals, router, callerVars, libVars>>

\* case *packets.SubAck, *packets.UnsubAck: c.ackChan.Get(packetID); without
\* a channel the packet is logged as lost
RAck(p) ==
    /\ Dispatching
    /\ IF HasChan(ackChan, p.id)
       THEN /\ rchan' = PacketChanMapGet(p.id)
            /\ rpc' = "r_ack_send"
            /\ rpkt' = p
       ELSE /\ rpkt' = Seen(p)
            /\ UNCHANGED <<rpc, rchan>>
    /\ UNCHANGED rerr
    /\ hist' = Received
    /\ UNCHANGED <<tables, signals, router, callerVars, libVars>>

\* select { case c <- packet: default: }
RForward(nextpc) ==
    /\ Alive
    /\ rchan' = NoChan
    /\ chans' = Collect(TrySend(chans, rchan, rpkt), ackChan, achan, NoChan)
    /\ rpc' = nextpc
    /\ rpkt' = IF nextpc = "recv" THEN Seen(rpkt) ELSE rpkt
    /\ UNCHANGED rerr
    /\ UNCHANGED <<packetIDCounter, pendingPackets, ackChan>>
    /\ UNCHANGED <<signals, router, callerVars, hist, libVars>>

RAckSend ==
    /\ rpc = "r_ack_send"
    /\ RForward("recv")

\* the sink the reader delivers to: nil without subscriber, and a full sink
\* drops the payload
Delivered(p) ==
    /\ SubMapGet(subs, p.topic) # Absent
    /\ sinkBuf[SubMapGet(subs, p.topic)] < SinkCap

\* the delivery as a plain send: the reader waits while the sink is full
RPublishMut(p) ==
    /\ Dispatching
    /\ SubMapGet(subs, p.topic) = Absent \/ Delivered(p)
    /\ IF Delivered(p)
       THEN /\ sinkBuf' = [sinkBuf EXCEPT ![SubMapGet(subs, p.topic)] = @ + 1]
            /\ UNCHANGED libVars
            /\ hist' = IF p.qos = 2
                       THEN [Received EXCEPT !.q2[p.id] = p.topic]
                       ELSE Received
       ELSE UNCHANGED <<sinkBuf, libVars>> /\ hist' = Received
    /\ rpkt' = IF p.qos \in {1, 2} THEN p ELSE Seen(p)
    /\ rpc' = CASE p.qos = 1 -> "r_pub1_send"
              [] p.qos = 2 -> "r_pub2_send"
              [] OTHER -> "recv"
    /\ UNCHANGED <<rchan, rerr>>
    /\ UNCHANGED <<tables, signals, subs, callerVars>>

\* case *packets.Publish: subChan := c.subs.Get(topic) and the non-blocking
\* send of the payload, then the switch on the QoS
RPublish(p) ==
    /\ Dispatching
    /\ IF Delivered(p)
       THEN /\ sinkBuf' = [sinkBuf EXCEPT ![SubMapGet(subs, p.topic)] = @ + 1]
            /\ UNCHANGED libVars
            /\ hist' = IF p.qos = 2
                       THEN [Received EXCEPT !.q2[p.id] = p.topic]
                       ELSE Received
       ELSE UNCHANGED <<sinkBuf, libVars>> /\ hist' = Received
    /\ rpkt' = IF p.qos \in {1, 2} THEN p ELSE Seen(p)
    /\ rpc' = CASE p.qos = 1 -> "r_pub1_send"
              [] p.qos = 2 -> "r_pub2_send"
              [] OTHER -> "recv"
    /\ UNCHANGED <<rchan, rerr>>
    /\ UNCHANGED <<tables, signals, subs, callerVars>>

\* case mqtt.QoS1: err := c.io.Send(pubAck)
RPub1Send(ok) ==
    /\ Alive
    /\ rpc = "r_pub1_send"
    /\ rpc' = IF ok THEN "r_pub1_del" ELSE "r_pub1_err"
    /\ rerr' = IF ok THEN Nil ELSE SendErr
    /\ UNCHANGED <<rpkt, rchan>>
    /\ hist' = IF ok THEN Sent(PubAckPkt(rpkt.id)) ELSE hist
    /\ UNCHANGED <<tables, signals, router, callerVars, libVars>>

\* if err != nil { c.errChan <- err }: a blocking send, and no return
RPub1Err ==
    /\ Alive
    /\ rpc = "r_pub1_err"
    /\ Len(errChan) < ChanCap
    /\ errChan' = Append(errChan, rerr)
    /\ rerr' = Nil
    /\ rpc' = "r_pub1_del"
    /\ UNCHANGED <<rpkt, rchan>>
    /\ UNCHANGED <<tables, connAck, pingResp, router, callerVars, hist, libVars>>

\* c.pendingPackets.Del(pub.PacketIdentifier)
RPub1Del ==
    /\ Alive
    /\ rpc = "r_pub1_del"
    /\ pendingPackets' = PacketMapDel(pendingPackets, rpkt.id)
    /\ rpc' = "recv"
    /\ rpkt' = Seen(rpkt)
    /\ UNCHANGED <<rchan, rerr>>
    /\ UNCHANGED <<packetIDCounter, ackChan, chans>>
    /\ UNCHANGED <<signals, router, callerVars, hist, libVars>>

\* the reader's c.io.Send of a reply; a failure is fatal
RSendReply(frompc, topc, reply, ok) ==
    /\ Alive
    /\ rpc = frompc
    /\ IF ok
       THEN /\ rpc' = topc
            /\ rpkt' = IF topc = "recv" THEN Seen(rpkt) ELSE rpkt
            /\ UNCHANGED rerr
       ELSE Fatal(SendErr) /\ UNCHANGED rpkt
    /\ UNCHANGED rchan
    /\ hist' = IF ok THEN Sent(reply) ELSE hist
    /\ UNCHANGED <<tables, signals, router, callerVars, libVars>>

\* case mqtt.QoS2: err := c.io.Send(pubRec)
RPub2Send(ok) ==
    RSendReply("r_pub2_send", "r_pub2_set", PubRecPkt(rpkt.id), ok)

\* c.pendingPackets.Set(pub.PacketIdentifier, pubRec)
RPub2Set ==
    /\ Alive
    /\ rpc = "r_pub2_set"
    /\ pendingPackets' = PacketMapSet(pendingPackets, rpkt.id, PendPubRec)
    /\ rpc' = "recv"
    /\ rpkt' = Seen(rpkt)
    /\ UNCHANGED <<rchan, rerr>>
    /\ UNCHANGED <<packetIDCounter, ackChan, chans>>
    /\ UNCHANGED <<signals, router, callerVars, hist, libVars>>

\* Recv and c.pendingPackets.Del(packet.PacketIdentifier)
RecvAndDel(p) ==
    /\ Dispatching
    /\ pendingPackets' = PacketMapDel(pendingPackets, p.id)
    /\ rpkt' = p
    /\ UNCHANGED <<rchan, rerr>>
    /\ UNCHANGED <<packetIDCounter, ackChan, chans>>
    /\ UNCHANGED <<signals, router, callerVars>>

\* case *packets.PubAck: delete pending packet; publish completed
RPubAck(p) ==
    /\ RecvAndDel(p)
    /\ hist' = Received
    /\ UNCHANGED <<rpc, libVars>>

\* case *packets.PubComp: delete pending packet; publish completed
RPubComp(p) ==
    /\ RecvAndDel(p)
    /\ hist' = Received
    /\ UNCHANGED <<rpc, libVars>>

\* case *packets.PubRel: discard cached packet ...
RPubRel(p) ==
    /\ RecvAndDel(p)
    /\ rpc' = "r_pubrel_send"
    /\ UNCHANGED libVars
    /\ hist' = [Received EXCEPT !.q2[p.id] = ""]

\* ... and send publish complete
RPubRelSend(ok) ==
    RSendReply("r_pubrel_send", "recv", PubCompPkt(rpkt.id), ok)

\* case *packets.PubRec: c.ackChan.Get(packet.PacketIdentifier)
RPubRec(p) ==
    /\ Dispatching
    /\ rchan' = PacketChanMapGet(p.id)
    /\ rpkt' = p
    /\ rpc' = "r_pubrec_fwd"
    /\ UNCHANGED rerr
    /\ hist' = Received
    /\ UNCHANGED <<tables, signals, router, callerVars, libVars>>

\* select { case ackChan <- packet: default: } when the channel was present
RPubRecFwd ==
    /\ rpc = "r_pubrec_fwd"
    /\ RForward("r_pubrec_set")

\* c.pendingPackets.Set(packet.PacketIdentifier, pubRel)
RPubRecSet ==
    /\ Alive
    /\ rpc = "r_pubrec_set"
    /\ pendingPackets' = PacketMapSet(pendingPackets, rpkt.id,
           PendPubRel(IF pendingPackets[rpkt.id].qos = 2 THEN 2 ELSE 0))
    /\ rpc' = "r_pubrec_rel"
    /\ UNCHANGED <<rpkt, rchan, rerr>>
    /\ UNCHANGED <<packetIDCounter, ackChan, chans>>
    /\ UNCHANGED <<signals, router, callerVars, hist, libVars>>

RPubRecRelMut(ok) ==
    RSendReply("r_pubrec_rel", "recv", PubCompPkt(rpkt.id), ok)

\* err := c.io.Send(pubRel)
RPubRecRel(ok) ==
    RSendReply("r_pubrec_rel", "recv", PubRelPkt(rpkt.id), ok)

\* the subscriber takes a payload out of its sink
SinkTake(s) ==
    /\ Alive
    /\ sinkBuf[s] > 0
    /\ sinkBuf' = [sinkBuf EXCEPT ![s] = @ - 1]
    /\ UNCHANGED <<tables, signals, subs, callerVars, readerVars, hist, libVars>>

\* ------------------------------------------------- calls of the topicChan
\* the filters a subscriber registers and the topics of inbound publishes
TopicA == <<"a">>
TopicAB == <<"a", "/", "b">>
TopicAC == <<"a", "/", "c">>
TopicABC == <<"a", "/", "b", "/", "c">>
FilterAPlus == <<"a", "/", "+">>
FilterAHash == <<"a", "/", "#">>
RouterFilters == {TopicAB, FilterAPlus, FilterAHash, <<"b">>}
RouterTopics == {TopicA, TopicAB, TopicAC, TopicABC}
RouterVars ==
    <<tables, signals, router, callerVars, readerVars, hist, varintVars,
      codecVars, connectVars, sendVars, accVars>>

\* t.add(topic, c)
RouterAdd(topic, c) ==
    /\ ~rcall.panic
    /\ LET r == TopicChanAdd(topicTree, topic, c)
       IN  /\ topicTree' = r.tree
           /\ rcall' = [name |-> "add", topic |-> topic, chan |-> c,
                        panic |-> r.panic]
    /\ registered' = {x \in registered : x[1] # topic} \cup {<<topic, c>>}
    /\ UNCHANGED RouterVars

\* t.get(topic)
RouterGet(topic) ==
    /\ ~rcall.panic
    /\ rcall' = [name |-> "get", topic |-> topic,
                 chan |-> TopicChanGet(topicTree, topic), panic |-> FALSE]
    /\ UNCHANGED <<topicTree, registered>>
    /\ UNCHANGED RouterVars

\* t.remove(topic)
RouterRemove(topic) ==
    /\ ~rcall.panic
    /\ topicTree' = TopicChanRemove(topicTree, topic)
    /\ rcall' = [name |-> "remove", topic |-> topic, chan |-> Nil,
                 panic |-> FALSE]
    /\ registered' = {x \in registered : x[1] # topic}
    /\ UNCHANGED RouterVars

\* ---------------------------------------------------- calls of the varints
\* the 7-bit groups the encoded values are made of
VarintGroups == {0, 1, 127}
\* values of four groups and a fifth group in 0..7 (val is a uint32)
VarintValues ==
    {d[1] + 128 * (d[2] + 128 * (d[3] + 128 * (d[4] + 128 * t))) :
        d \in [1 .. 4 -> VarintGroups], t \in 0 .. 7}
\* the inputs ReadVarint is given apart from encoded values
VarintBytes == {0, 1, 128, 255}
VarintInputs == SeqsOf(VarintBytes, 1, 5)
\* the buffer of the callers: var buf [4]byte
VarintBufLen == 4
VarintFrame ==
    <<tables, signals, router, callerVars, readerVars, hist, treeVars,
      codecVars, connectVars, sendVars, accVars>>

\* n, err := EncodeUvarint(buf[:], val), the first call of a run
VarintEncode(val) ==
    /\ venc = NoEnc /\ vdec = NoDec
    /\ venc' = EncodeUvarint(VarintBufLen, val)
    /\ vdec' = NoDec
    /\ UNCHANGED VarintFrame

\* util.ReadVarint reads the bytes that EncodeUvarint has written
VarintDecode ==
    /\ venc.n > 0 /\ vdec = NoDec
    /\ vdec' = ReadVarint(SubSeq(venc.buf, 1, venc.n))
    /\ UNCHANGED venc
    /\ UNCHANGED VarintFrame

\* x/util.ReadVarint reads the bytes that EncodeUvarint has written
XVarintDecode ==
    /\ venc.n > 0 /\ vdec = NoDec
    /\ vdec' = XReadVarint(SubSeq(venc.buf, 1, venc.n))
    /\ UNCHANGED venc
    /\ UNCHANGED VarintFrame

\* ReadVarint of either package reads bytes a peer has sent, the first call
\* of a run
VarintRead(in) ==
    /\ venc = NoEnc /\ vdec = NoDec
    /\ venc' = NoEnc
    /\ vdec' \in {ReadVarint(in), XReadVarint(in)}
    /\ UNCHANGED VarintFrame

\* --------------------------------------------------- calls of the PacketIO
\* the packet identifiers and the packets handed to Send
WireIds == {0, 1, 255, 256, 65535}
WirePackets(version) ==
    {WirePkt("ConnAck", version, 0, sp, rc) :
        sp \in BOOLEAN, rc \in {ConnAckAccepted, ConnAckUnauthorized, 255}}
    \cup {WirePkt(k, version, i, FALSE, 0) :
            k \in {"PubAck", "PubRec", "PubRel", "PubComp", "UnsubAck"},
            i \in WireIds}
    \cup {WirePkt(k, version, 0, FALSE, 0) :
            k \in {"PingReq", "PingResp", "Disconnect"}}
CodecFrame ==
    <<tables, signals, router, callerVars, readerVars, hist, treeVars,
      varintVars, connectVars, sendVars, accVars>>

\* NewPacketIO on a new connection
PioNew(version) ==
    /\ pio' = NewPacketIO(version)
    /\ sent' = NoPacket
    /\ recvd' = NoRecv
    /\ UNCHANGED CodecFrame

\* PacketIO.Send(pkt) on a connection that holds nothing: pkt.WriteTo writes
\* the bytes of MarshalBinary
PioSend(p) ==
    /\ pio.conn = <<>>
    /\ pio' = [pio EXCEPT !.conn = MarshalBinary(p)]
    /\ sent' = p
    /\ recvd' = NoRecv
    /\ UNCHANGED CodecFrame

\* PacketIO.Recv() at the other end of the connection
PioRecv ==
    LET r == PacketIORecv(pio)
    IN  /\ ~r.blocks
        /\ pio' = [pio EXCEPT !.conn = r.rest]
        /\ recvd' = [of |-> sent, raw |-> pio.conn, pkt |-> r.pkt,
                      err |-> r.err]
        /\ sent' = NoPacket
        /\ UNCHANGED CodecFrame

\* the frames a server may write: a command byte of the PUBACK family or of
\* UNSUBACK, a declared remaining length, and that many bytes or more
AckCommands == {cmdPubAck, cmdPubRec, cmdPubRel, cmdPubComp, cmdUnsubAck}
AckFrames ==
    {<<cmd, len>> \o body :
        cmd \in AckCommands, len \in 0 .. 3, body \in SeqsOf({0, 1}, 2, 3)}

\* the peer writes the bytes of a frame on a connection that holds nothing
PioFeed(frame) ==
    /\ pio.conn = <<>>
    /\ pio' = [pio EXCEPT !.conn = frame]
    /\ sent' = NoPacket
    /\ recvd' = NoRecv
    /\ UNCHANGED CodecFrame

\* ------------------------------------------- calls that make a CONNECT
\* the lengths of the strings and the connect options of the callers
FieldLens == {0, 1, 65535, 65536, 65541}
WillTopics ==
    {NoTopic} \cup {[Name |-> Str("will", n), QoS |-> q] :
                      n \in {4, 65536}, q \in 0 .. 3}
ConnectOptionsSet ==
    {[Username |-> u, Password |-> EmptyStr, CleanSession |-> cs,
      WillTopic |-> wt, WillMessage |-> wm, WillRetain |-> wr] :
        u \in {EmptyStr, Str("foo", 3)}, cs \in BOOLEAN,
        wt \in {NoTopic, [Name |-> Str("will", 4), QoS |-> 1]},
        wm \in {EmptyStr, Str("bye", 3)}, wr \in BOOLEAN}
ConnectStructs ==
    {[Version |-> v, ClientID |-> Str("id", i), CleanSession |-> FALSE,
      Username |-> Str("foo", u), Password |-> Str("bar", p),
      WillTopic |-> wt, WillMessage |-> Str("bye", wm),
      WillRetain |-> FALSE] :
        v \in {MQTTv311, MQTTv5}, i \in {0, 2, 65536}, u \in {0, 3, 65537},
        p \in {0, 65536}, wt \in WillTopics, wm \in FieldLens}
ConnectFrame ==
    <<tables, signals, router, callerVars, readerVars, hist, treeVars,
      varintVars, codecVars, sendVars, accVars>>

\* Client.Connect(opt) up to c.io.Send: the struct it makes of the options
ConnectBuild(v, opt) ==
    /\ cenc = NoConnect
    /\ cenc' = [options |-> opt, pkt |-> NewConnect(v, Str("id", 2), opt),
                out |-> NoBinary]
    /\ UNCHANGED ConnectFrame

\* a program fills a packets.Connect itself
ConnectFill(c) ==
    /\ cenc = NoConnect
    /\ cenc' = [options |-> NoOptions, pkt |-> c, out |-> NoBinary]
    /\ UNCHANGED ConnectFrame

\* c.io.Send(conn) calls conn.WriteTo, which calls conn.MarshalBinary
ConnectMarshal ==
    /\ cenc.pkt # NoStruct
    /\ ~cenc.out.made
    /\ cenc' = [cenc EXCEPT !.out = ConnectMarshalBinary(cenc.pkt)]
    /\ UNCHANGED ConnectFrame

\* ------------------------------------------------------------ specifications
\* the steps of aquirePacketID
Acquire(c) == AcqPending(c) \/ AcqAckChan(c)

\* the steps of Publish after aquirePacketID; every write succeeds
PublishSteps(c) ==
    \/ PubNew(c) \/ PubAdd(c) \/ PubSend(c, TRUE)
    \/ PubGet(c) \/ PubWait(c) \/ PubDel(c)

\* the steps of Unsubscribe after aquirePacketID; every write succeeds
UnsubscribeSteps(c) ==
    \/ UnsNew(c) \/ UnsSend(c, TRUE) \/ UnsGet(c) \/ UnsWait(c) \/ UnsDel(c)

\* the caller of the specifications with one caller goroutine
OneCaller == {"c1"}

\* Publish at every QoS from one caller goroutine.  The server follows the
\* protocol: it acknowledges what the client has in flight (PUBACK for a
\* QoS1 PUBLISH, PUBREC for a QoS2 PUBLISH, PUBCOMP for a PUBREL), it sends
\* PUBREL for a PUBREC it received, and it publishes to the client at QoS1
\* and QoS2 under packet ids of its own choice
NextFlow ==
    \/ \E c \in OneCaller, q \in QoSValues : PublishBegin(c, q)
    \/ \E c \in OneCaller : Acquire(c)
    \/ \E c \in OneCaller : PublishSteps(c)
    \/ \E i \in Ids : /\ pendingPackets[i] = PendPublish(1)
                       /\ RPubAck(PubAckPkt(i))
    \/ \E i \in Ids : /\ pendingPackets[i] = PendPublish(2)
                       /\ RPubRec(PubRecPkt(i))
    \/ \E i \in Ids : /\ pendingPackets[i].kind = "PubRel"
                       /\ RPubComp(PubCompPkt(i))
    \/ \E i \in Ids : /\ pendingPackets[i] = PendPubRec
                       /\ RPubRel(PubRelPkt(i))
    \/ \E i \in Ids, q \in {1, 2} : RPublish(PublishPkt(i, q, "a"))
    \/ RPub1Send(TRUE) \/ RPub1Del \/ RPub2Send(TRUE) \/ RPub2Set
    \/ RPubRelSend(TRUE) \/ RPubRecFwd \/ RPubRecSet \/ RPubRecRel(TRUE)

SpecFlow == Init /\ [][NextFlow]_vars

\* Publish at QoS0 and Unsubscribe from two caller goroutines; the server
\* may send UNSUBACK with any id at any time
NextIds ==
    \/ \E c \in Callers : PublishBegin(c, 0)
    \/ \E c \in Callers : UnsubscribeBegin(c, <<"a">>)
    \/ \E c \in Callers : Acquire(c)
    \/ \E c \in Callers : PubSend(c, TRUE)
    \/ \E c \in Callers : UnsubscribeSteps(c)
    \/ \E i \in Ids : RAck(UnsubAckPkt(i))
    \/ RAckSend

SpecIds == Init /\ [][NextIds]_vars

\* Publish at QoS2 from one caller goroutine; the server may send PUBREC,
\* PUBCOMP, SUBACK and UNSUBACK with any id at any time
NextRelease ==
    \/ \E c \in OneCaller : PublishBegin(c, 2)
    \/ \E c \in OneCaller : Acquire(c)
    \/ \E c \in OneCaller : PublishSteps(c)
    \/ \E i \in Ids : RPubRec(PubRecPkt(i))
    \/ \E i \in Ids : RPubComp(PubCompPkt(i))
    \/ \E i \in Ids : RAck(UnsubAckPkt(i))
    \/ \E i \in Ids : RAck(SubAckPkt(i, <<0>>))
    \/ RPubRecFwd \/ RPubRecSet \/ RPubRecRel(TRUE) \/ RAckSend

SpecRelease == Init /\ [][NextRelease]_vars

\* the steps of Subscribe after aquirePacketID; every write succeeds
SubscribeSteps(c) ==
    \/ SubNew(c) \/ SubAdd(c) \/ SubSend(c, TRUE) \/ SubGet(c)
    \/ SubWaitAck(c) \/ SubRoll(c) \/ SubDel(c)

\* the topic lists of a Subscribe call
Subscriptions == [name : Filters, sink : Sinks]
SubReqs == SeqsOf(Subscriptions, 1, MaxTopics)

\* the callers whose SUBSCRIBE is on the wire and not yet answered
SubscribeSent ==
    {c \in Callers : /\ pc[c] \in {"sub_get", "sub_wait"}
                     /\ HasChan(ackChan, pid[c])
                     /\ chans[ackChan[pid[c]]] = <<>>}

\* the SUBACKs a server sends for the SUBSCRIBE of caller c: the id of the
\* request, and one return code per filter, one less or one more
SubAcksFor(c) ==
    {SubAckPkt(pid[c], codes) :
       codes \in SeqsOf(SubAckCodes, Len(op[c].topics) - 1,
                        Len(op[c].topics) + 1)}

\* Subscribe from one caller goroutine with any list of filters and sinks;
\* the server answers each SUBSCRIBE it has received
NextSub ==
    \/ \E c \in OneCaller, topics \in SubReqs : SubscribeBegin(c, topics)
    \/ \E c \in OneCaller : Acquire(c)
    \/ \E c \in OneCaller : SubscribeSteps(c)
    \/ \E c \in SubscribeSent : \E p \in SubAcksFor(c) : RAck(p)
    \/ RAckSend

SpecSub == Init /\ [][NextSub]_vars

\* the SUBACK that grants every filter of the SUBSCRIBE of caller c at QoS0
Granted(c) == SubAckPkt(pid[c], [i \in 1 .. Len(op[c].topics) |-> 0])

\* the callers whose UNSUBSCRIBE is on the wire and not yet answered
UnsubscribeSent ==
    {c \in Callers : /\ pc[c] \in {"uns_get", "uns_wait"}
                     /\ HasChan(ackChan, pid[c])
                     /\ chans[ackChan[pid[c]]] = <<>>}

\* the packet ids the server uses for its own QoS2 publishes
InboundIds == 0 .. (MaxInbound - 1)

\* one caller goroutine subscribes to single filters, the server grants
\* every request and publishes at QoS2 on any topic, repeating a PUBLISH at
\* will before its PUBREL; the subscriber drains its sinks
NextDeliver ==
    \/ \E c \in OneCaller, t \in Subscriptions : SubscribeBegin(c, <<t>>)
    \/ \E c \in OneCaller : Acquire(c)
    \/ \E c \in OneCaller : SubscribeSteps(c)
    \/ \E c \in SubscribeSent : RAck(Granted(c))
    \/ RAckSend
    \/ \E i \in InboundIds, t \in Filters : RPublish(PublishPkt(i, 2, t))
    \/ RPub2Send(TRUE) \/ RPub2Set
    \/ \E i \in InboundIds : RPubRel(PubRelPkt(i))
    \/ RPubRelSend(TRUE)
    \/ \E s \in Sinks : SinkTake(s)

SpecDeliver == Init /\ [][NextDeliver]_vars

\* one caller goroutine subscribes to and unsubscribes from single filters,
\* the server grants every request and publishes at QoS0 on any topic; the
\* subscriber drains its sinks
NextUnsub ==
    \/ \E c \in OneCaller, t \in Subscriptions : SubscribeBegin(c, <<t>>)
    \/ \E c \in OneCaller, f \in Filters : UnsubscribeBegin(c, <<f>>)
    \/ \E c \in OneCaller : Acquire(c)
    \/ \E c \in OneCaller : SubscribeSteps(c)
    \/ \E c \in OneCaller : UnsubscribeSteps(c)
    \/ \E c \in SubscribeSent : RAck(Granted(c))
    \/ \E c \in UnsubscribeSent : RAck(UnsubAckPkt(pid[c]))
    \/ RAckSend
    \/ \E t \in Filters : RPublish(PublishPkt(0, 0, t))
    \/ \E s \in Sinks : SinkTake(s)

SpecUnsub == Init /\ [][NextUnsub]_vars

\* the CONNACK return codes the server sends (ReturnCode is a uint8)
RetCodes == (0 .. MaxRetCode) \cup {255}

\* what the reader does with CONNACK, PINGRESP, an unexpected packet and a
\* broken or closed connection
ReaderSignals ==
    \/ \E r \in RetCodes : RRecvSignal(ConnAckPkt(r))
    \/ RRecvSignal(PingRespPkt)
    \/ RConnAck \/ RPingResp
    \/ RRecvErr \/ RRecvEOF \/ RRecvOther \/ RFatal

\* two caller goroutines call Connect and Ping, a write may fail; the server
\* sends CONNACK with any return code, PINGRESP and packets the client does
\* not expect; the connection may break or close
NextConn ==
    \/ \E c \in Callers, ok \in BOOLEAN : ConnectBegin(c, ok)
    \/ \E c \in Callers : ConWaitAck(c) \/ ConWaitErr(c)
    \/ \E c \in Callers, ok \in BOOLEAN : PingBegin(c, ok)
    \/ \E c \in Callers : PingWaitResp(c) \/ PingWaitErr(c) \/ PingRepost(c)
    \/ ReaderSignals

SpecConn == Init /\ [][NextConn]_vars

\* one caller goroutine calls Connect, Ping and Subscribe; the server answers
\* them, sends packets the client does not expect, and the connection may
\* break or close
NextErr ==
    \/ \E c \in OneCaller : ConnectBegin(c, TRUE)
    \/ \E c \in OneCaller : ConWaitAck(c) \/ ConWaitErr(c)
    \/ \E c \in OneCaller : PingBegin(c, TRUE)
    \/ \E c \in OneCaller :
          PingWaitResp(c) \/ PingWaitErr(c) \/ PingRepost(c)
    \/ \E c \in OneCaller : SubscribeBegin(c, <<[name |-> "a", sink |-> "s1"]>>)
    \/ \E c \in OneCaller : Acquire(c)
    \/ \E c \in OneCaller : SubscribeSteps(c)
    \/ \E c \in OneCaller : SubWaitErr(c) \/ SubRepost(c)
    \/ \E c \in SubscribeSent : RAck(Granted(c))
    \/ RAckSend
    \/ ReaderSignals

SpecErr == Init /\ [][NextErr]_vars

\* the callers whose QoS2 PUBLISH is on the wire and not yet answered
PublishSent ==
    {c \in Callers : /\ pc[c] \in {"pub_get", "pub_wait"}
                     /\ HasChan(ackChan, pid[c])
                     /\ chans[ackChan[pid[c]]] = <<>>}

\* the steps a caller goroutine takes inside Publish at QoS2, Subscribe,
\* Unsubscribe and Ping once it has made the call
CallerStep(c) ==
    \/ Acquire(c)
    \/ PublishSteps(c) \/ UnsubscribeSteps(c) \/ SubscribeSteps(c)
    \/ SubWaitErr(c) \/ SubRepost(c)
    \/ PingWaitResp(c) \/ PingWaitErr(c) \/ PingRepost(c)

\* the steps the reader goroutine takes by itself after Recv returned
ReaderStep ==
    \/ RAckSend \/ RPubRecFwd \/ RPubRecSet \/ RPubRecRel(TRUE)
    \/ RPingResp \/ RFatal

\* one caller goroutine calls Publish at QoS2, Subscribe, Unsubscribe and
\* Ping; the server answers every request, and the connection may break
NextBlock ==
    \/ \E c \in OneCaller : PublishBegin(c, 2)
    \/ \E c \in OneCaller : SubscribeBegin(c, <<[name |-> "a", sink |-> "s1"]>>)
    \/ \E c \in OneCaller : UnsubscribeBegin(c, <<"a">>)
    \/ \E c \in OneCaller : PingBegin(c, TRUE)
    \/ \E c \in OneCaller : CallerStep(c)
    \/ \E c \in PublishSent : RPubRec(PubRecPkt(pid[c]))
    \/ \E i \in Ids : pendingPackets[i].kind = "PubRel" /\ RPubComp(PubCompPkt(i))
    \/ \E c \in SubscribeSent : RAck(Granted(c))
    \/ \E c \in UnsubscribeSent : RAck(UnsubAckPkt(pid[c]))
    \/ RRecvSignal(PingRespPkt)
    \/ RRecvErr
    \/ ReaderStep

\* a goroutine that can run does run: the Go scheduler is fair to the caller
\* inside a call and to the reader; nobody has to start a call, and the
\* server does not have to send
SpecBlock ==
    /\ Init /\ [][NextBlock]_vars
    /\ \A c \in OneCaller : WF_vars(CallerStep(c))
    /\ WF_vars(ReaderStep)

\* the server has a CONNECT (PINGREQ) to answer: a caller waits for the
\* CONNACK (PINGRESP) and none is on its way
ConnectSent ==
    /\ \E c \in Callers : pc[c] = "con_wait"
    /\ connAck = <<>> /\ rpc = "recv"
PingSent ==
    /\ \E c \in Callers : pc[c] = "ping_wait"
    /\ pingResp = <<>> /\ rpc = "recv"

\* what the server sends to complete the QoS1 and QoS2 flows of the client
ServerAcks ==
    \/ \E c \in PublishSent : RPubRec(PubRecPkt(pid[c]))
    \/ \E i \in Ids :
          pendingPackets[i] = PendPublish(1) /\ RPubAck(PubAckPkt(i))
    \/ \E i \in Ids :
          pendingPackets[i].kind = "PubRel" /\ RPubComp(PubCompPkt(i))

\* the reader is between two packets and the server owes no PUBCOMP
Settled ==
    /\ rpc = "recv"
    /\ \A i \in Ids : pendingPackets[i].kind # "PubRel"

\* one caller goroutine calls Connect, Ping, Publish, Subscribe and
\* Unsubscribe, and any of its writes may fail; the server answers every
\* request, and the caller makes its next call once the server has answered
\* the PUBRELs of the calls before
NextWrite ==
    \/ \E c \in OneCaller, ok \in BOOLEAN : Settled /\ ConnectBegin(c, ok)
    \/ \E c \in OneCaller : ConWaitAck(c)
    \/ \E c \in OneCaller, ok \in BOOLEAN : Settled /\ PingBegin(c, ok)
    \/ \E c \in OneCaller : PingWaitResp(c)
    \/ \E c \in OneCaller, q \in QoSValues : Settled /\ PublishBegin(c, q)
    \/ \E c \in OneCaller :
          Settled /\ SubscribeBegin(c, <<[name |-> "a", sink |-> "s1"]>>)
    \/ \E c \in OneCaller : Settled /\ UnsubscribeBegin(c, <<"a">>)
    \/ \E c \in OneCaller : Acquire(c)
    \/ \E c \in OneCaller : PubNew(c) \/ PubAdd(c)
    \/ \E c \in OneCaller, ok \in BOOLEAN : PubSend(c, ok)
    \/ \E c \in OneCaller : PubGet(c) \/ PubWait(c) \/ PubDel(c)
    \/ \E c \in OneCaller : SubNew(c) \/ SubAdd(c)
    \/ \E c \in OneCaller, ok \in BOOLEAN : SubSend(c, ok)
    \/ \E c \in OneCaller :
          SubGet(c) \/ SubWaitAck(c) \/ SubRoll(c) \/ SubDel(c)
    \/ \E c \in OneCaller : UnsNew(c)
    \/ \E c \in OneCaller, ok \in BOOLEAN : UnsSend(c, ok)
    \/ \E c \in OneCaller : UnsGet(c) \/ UnsWait(c) \/ UnsDel(c)
    \/ ServerAcks
    \/ RPubRecFwd \/ RPubRecSet \/ RPubRecRel(TRUE)
    \/ \E c \in SubscribeSent : RAck(Granted(c))
    \/ \E c \in UnsubscribeSent : RAck(UnsubAckPkt(pid[c]))
    \/ RAckSend
    \/ ConnectSent /\ RRecvSignal(ConnAckPkt(ConnAckAccepted))
    \/ PingSent /\ RRecvSignal(PingRespPkt)
    \/ RConnAck \/ RPingResp

SpecWrite == Init /\ [][NextWrite]_vars

\* one caller goroutine calls Connect, Ping and Disconnect; a write may fail
\* and fails once the transport is closed; until then the server answers and
\* sends packets the client does not expect; the connection may break
NextDisc ==
    \/ \E c \in OneCaller, ok \in BOOLEAN :
          (hist.closed => ~ok) /\ ConnectBegin(c, ok)
    \/ \E c \in OneCaller : ConWaitAck(c) \/ ConWaitErr(c)
    \/ \E c \in OneCaller, ok \in BOOLEAN :
          (hist.closed => ~ok) /\ PingBegin(c, ok)
    \/ \E c \in OneCaller :
          PingWaitResp(c) \/ PingWaitErr(c) \/ PingRepost(c)
    \/ \E c \in OneCaller, ok \in BOOLEAN :
          (hist.closed => ~ok) /\ DisconnectBegin(c, ok)
    \/ \E c \in OneCaller, errClose \in {Nil, CloseErr} : DisClose(c, errClose)
    \/ ~hist.closed /\ \E r \in RetCodes : RRecvSignal(ConnAckPkt(r))
    \/ ~hist.closed /\ RRecvSignal(PingRespPkt)
    \/ ~hist.closed /\ RRecvOther
    \/ RConnAck \/ RPingResp
    \/ RRecvErr \/ RRecvEOF \/ RFatal

SpecDisc == Init /\ [][NextDisc]_vars

\* one caller goroutine calls Publish with any QoS value; the server
\* completes the QoS1 and QoS2 flows
NextQos ==
    \/ \E c \in OneCaller, q \in 0 .. MaxQoS : PublishBegin(c, q)
    \/ \E c \in OneCaller : Acquire(c)
    \/ \E c \in OneCaller : PubIllegal(c)
    \/ \E c \in OneCaller : PublishSteps(c)
    \/ ServerAcks
    \/ RPubRecFwd \/ RPubRecSet \/ RPubRecRel(TRUE)

SpecQos == Init /\ [][NextQos]_vars

\* a subscriber registers filters, removes filters it registered, and looks
\* topics up, in any order
NextRouter ==
    \/ \E f \in RouterFilters, c \in Sinks : RouterAdd(f, c)
    \/ \E t \in RouterTopics : RouterGet(t)
    \/ \E x \in registered : RouterRemove(x[1])

SpecRouter == Init /\ [][NextRouter]_vars

\* filters without wildcards, one a prefix of the next
PruneFilters == {TopicA, TopicAB, TopicABC, <<"b">>}

\* a subscriber registers filters without wildcards and removes any of them,
\* registered or not, in any order
NextPrune ==
    \/ \E f \in PruneFilters, c \in Sinks : RouterAdd(f, c)
    \/ \E f \in PruneFilters : RouterGet(f)
    \/ \E f \in PruneFilters : RouterRemove(f)

SpecPrune == Init /\ [][NextPrune]_vars

\* what the send actions leave alone
SendFrame ==
    <<tables, signals, router, callerVars, readerVars, hist, treeVars,
      varintVars, codecVars, connectVars, accVars>>

\* a task enters Send when the sendMutex has a free slot
SendEnter(t) ==
    /\ snd.pc[t] = "idle"
    /\ Len(snd.mutex) < ChanCap
    /\ snd' = SendLock(snd, t)
    /\ UNCHANGED SendFrame

\* the write deadline is set when the PacketIO has a timeout, and setting
\* it may fail
SendSetDeadline(t, set, ok) ==
    /\ snd.pc[t] = "deadline"
    /\ snd' = SendDeadline(snd, t, set, ok)
    /\ UNCHANGED SendFrame

\* one write of the connection, which may fail
SendChunk(t, ok) ==
    /\ snd.pc[t] = "write"
    /\ snd' = SendWrite(snd, t, ok)
    /\ UNCHANGED SendFrame

\* Send returns: the deferred function runs
SendLeave(t) ==
    /\ snd.pc[t] = "unlock"
    /\ snd.mutex # <<>>
    /\ snd' = SendUnlock(snd, t)
    /\ UNCHANGED SendFrame

\* the caller goroutines and the reader call Send at any time
NextSend ==
    \/ \E t \in Senders : SendEnter(t)
    \/ \E t \in Senders, set, ok \in BOOLEAN : SendSetDeadline(t, set, ok)
    \/ \E t \in Senders, ok \in BOOLEAN : SendChunk(t, ok)
    \/ \E t \in Senders : SendLeave(t)

SpecSend == Init /\ [][NextSend]_vars

\* the filters of the Subscribe calls and the topics of inbound publishes
AccessTopics == {TopicA, TopicAB}
\* what the calls of the topicChan leave alone
AccessFrame ==
    <<tables, signals, router, callerVars, readerVars, hist, varintVars,
      codecVars, connectVars, sendVars>>

\* task t calls a method of c.subscribeChans: Subscribe calls add for each
\* topic and remove for a topic with a bad status code, the reader calls
\* get for an inbound PUBLISH; no call takes a lock
TreeCall(t, name, topic) ==
    /\ ~rcall.panic
    /\ acc.in[t] = "none"
    /\ IF t = "reader" THEN name = "get" ELSE name \in {"add", "remove"}
    /\ acc' = [acc EXCEPT !.in[t] = name, !.topic[t] = topic]
    /\ UNCHANGED <<treeVars, AccessFrame>>

\* another task is inside the tree and one of the two calls writes it
Races(t) ==
    \E u \in Senders \ {t} :
        /\ acc.in[u] # "none"
        /\ acc.in[t] # "get" \/ acc.in[u] # "get"

\* the method returns.  A call that overlapped a write of the tree is a
\* data race: the Go runtime may stop the program (concurrent map read and
\* map write) or let the call finish
TreeReturn(t, crash) ==
    /\ ~rcall.panic
    /\ acc.in[t] # "none"
    /\ crash => Races(t)
    /\ LET topic == acc.topic[t]
           added == TopicChanAdd(topicTree, topic, "s1")
       IN  /\ topicTree' =
                 CASE crash -> topicTree
                   [] acc.in[t] = "add" -> added.tree
                   [] acc.in[t] = "remove" -> TopicChanRemove(topicTree, topic)
                   [] OTHER -> topicTree
           /\ rcall' =
                 [name |-> acc.in[t], topic |-> topic,
                  chan |-> IF acc.in[t] = "get" /\ ~crash
                           THEN TopicChanGet(topicTree, topic) ELSE Nil,
                  panic |-> crash \/ (acc.in[t] = "add" /\ added.panic)]
    /\ acc' = [acc EXCEPT !.in[t] = "none", !.topic[t] = <<>>]
    /\ UNCHANGED <<registered, AccessFrame>>

\* the caller goroutines run Subscribe while the reader dispatches inbound
\* PUBLISH packets
NextAccess ==
    \/ \E t \in Senders, name \in {"add", "remove", "get"},
          topic \in AccessTopics : TreeCall(t, name, topic)
    \/ \E t \in Senders, crash \in BOOLEAN : TreeReturn(t, crash)

SpecAccess == Init /\ [][NextAccess]_vars

\* a value is encoded and read back, or an input of a peer is read
NextVarint ==
    \/ \E val \in VarintValues : VarintEncode(val)
    \/ VarintDecode
    \/ XVarintDecode
    \/ \E in \in VarintInputs : VarintRead(in)

SpecVarint == Init /\ [][NextVarint]_vars

\* packets of either protocol version are sent through a PacketIO and
\* received from it
NextCodec ==
    \/ \E v \in {MQTTv311, MQTTv5} : PioNew(v)
    \/ \E v \in {MQTTv311, MQTTv5} : \E p \in WirePackets(v) :
          pio.version = v /\ PioSend(p)
    \/ PioRecv

SpecCodec == Init /\ [][NextCodec]_vars

\* a server writes frames of the PUBACK family and UNSUBACK frames with any
\* declared remaining length, and the client receives them
NextDecode ==
    \/ \E frame \in AckFrames : PioFeed(frame)
    \/ PioRecv

SpecDecode == Init /\ [][NextDecode]_vars

\* a CONNECT packet is made by Client.Connect from connect options, or
\* filled in by a program, and marshalled
NextConnect ==
    \/ \E v \in {MQTTv311, MQTTv5}, opt \in ConnectOptionsSet :
          ConnectBuild(v, opt)
    \/ \E c \in ConnectStructs : ConnectFill(c)
    \/ ConnectMarshal

SpecConnect == Init /\ [][NextConnect]_vars

\* the steps of the reader between a Recv and the next when c.io.Send works
ReplySteps ==
    \/ RPub1Send(TRUE) \/ RPub1Del
    \/ RPub2Send(TRUE) \/ RPub2Set
    \/ RPubRelSend(TRUE)
    \/ RPubRecFwd \/ RPubRecSet \/ RPubRecRel(TRUE)

\* the server publishes at every QoS, sends PUBREL and PUBREC with the packet
\* ids it uses, and answers the QoS2 publishes of one caller goroutine; the
\* transport works
NextReply ==
    \/ \E c \in OneCaller : Settled /\ PublishBegin(c, 2)
    \/ \E c \in OneCaller : Acquire(c)
    \/ \E c \in OneCaller : PublishSteps(c)
    \/ \E i \in InboundIds, q \in QoSValues, t \in Filters :
          RPublish(PublishPkt(i, q, t))
    \/ \E i \in InboundIds : RPubRel(PubRelPkt(i)) \/ RPubRec(PubRecPkt(i))
    \/ \E c \in PublishSent : RPubRec(PubRecPkt(pid[c]))
    \/ \E i \in Ids :
          pendingPackets[i].kind = "PubRel" /\ RPubComp(PubCompPkt(i))
    \/ ReplySteps

\* the Go scheduler lets the reader goroutine run whenever it can
SpecReply == Init /\ [][NextReply]_vars /\ WF_vars(ReplySteps)

\* the PUBLISH packets the server sends
InboundPublishes ==
    {PublishPkt(i, q, t) : i \in InboundIds, q \in QoSValues, t \in Filters}

\* the steps the reader takes by itself after it received a PUBLISH or a
\* SUBACK, over a transport that works
DeliverySteps ==
    \/ RAckSend
    \/ RPub1Send(TRUE) \/ RPub1Del
    \/ RPub2Send(TRUE) \/ RPub2Set

\* one caller goroutine subscribes to filter a and the server grants every
\* request; the server publishes at every QoS on any topic, and the
\* subscriber takes payloads out of its sinks when it likes, or never
NextDrop ==
    \/ \E c \in OneCaller :
          Settled /\ SubscribeBegin(c, <<[name |-> "a", sink |-> "s1"]>>)
    \/ \E c \in OneCaller : Acquire(c)
    \/ \E c \in OneCaller : SubscribeSteps(c)
    \/ \E c \in SubscribeSent : RAck(Granted(c))
    \/ \E p \in InboundPublishes : RPublish(p)
    \/ DeliverySteps
    \/ \E s \in Sinks : SinkTake(s)

\* the Go scheduler lets the reader goroutine run whenever it can; nobody
\* has to read a sink
SpecDrop == Init /\ [][NextDrop]_vars /\ WF_vars(DeliverySteps)

\* the steps the reader takes by itself after Recv returned, when each of its
\* writes succeeds or fails
FatalSteps ==
    \/ \E ok \in BOOLEAN : RPub1Send(ok) \/ RPub2Send(ok)
    \/ \E ok \in BOOLEAN : RPubRelSend(ok) \/ RPubRecRel(ok)
    \/ RPub1Err \/ RPub1Del \/ RPub2Set
    \/ RPubRecFwd \/ RPubRecSet
    \/ RFatal

\* the reader alone: the server publishes at every QoS, sends PUBREL, PUBREC
\* and packets a client must not receive, every write of the reader may
\* fail, and Recv may report end-of-stream or an error
NextFatal ==
    \/ \E i \in Ids, q \in QoSValues : RPublish(PublishPkt(i, q, "a"))
    \/ \E i \in Ids : RPubRel(PubRelPkt(i)) \/ RPubRec(PubRecPkt(i))
    \/ RRecvOther
    \/ RRecvEOF
    \/ RRecvErr
    \/ FatalSteps

\* the Go scheduler lets the reader goroutine run whenever it can
SpecFatal == Init /\ [][NextFatal]_vars /\ WF_vars(FatalSteps)

\* one caller goroutine calls Publish at QoS1, Subscribe and Unsubscribe;
\* the server sends SUBACK and UNSUBACK with any packet id at any time,
\* asked for or not
NextForward ==
    \/ \E c \in OneCaller : PublishBegin(c, 1)
    \/ \E c \in OneCaller :
          SubscribeBegin(c, <<[name |-> "a", sink |-> "s1"]>>)
    \/ \E c \in OneCaller : UnsubscribeBegin(c, <<"a">>)
    \/ \E c \in OneCaller : Acquire(c)
    \/ \E c \in OneCaller : PubAdd(c) \/ PubSend(c, TRUE)
    \/ \E c \in OneCaller : SubscribeSteps(c) \/ UnsubscribeSteps(c)
    \/ \E i \in Ids : RAck(SubAckPkt(i, <<0>>)) \/ RAck(UnsubAckPkt(i))
    \/ RAckSend

SpecForward == Init /\ [][NextForward]_vars

\* the packet ids of the QoS1 PUBLISH packets that are written and not yet
\* acknowledged, when every write succeeds
PublishWritten ==
    {i \in Ids : /\ pendingPackets[i] = PendPublish(1)
                 /\ \A c \in Callers : ~(pc[c] = "pub_send" /\ pid[c] = i)}

\* Publish at QoS0 and QoS1 from one caller goroutine; the server sends the
\* PUBACK of every QoS1 PUBLISH it was sent, at any moment after the write
NextAck ==
    \/ \E c \in OneCaller, q \in {0, 1} : PublishBegin(c, q)
    \/ \E c \in OneCaller : Acquire(c)
    \/ \E c \in OneCaller : PubAdd(c) \/ PubSend(c, TRUE)
    \/ \E i \in PublishWritten : RPubAck(PubAckPkt(i))

SpecAck == Init /\ [][NextAck]_vars

\* the steps the reader takes by itself after a PUBLISH, PUBREC or PUBREL
StaleSteps ==
    \/ RPub1Send(TRUE) \/ RPub1Del \/ RPub2Send(TRUE) \/ RPub2Set
    \/ RPubRelSend(TRUE)
    \/ RPubRecFwd \/ RPubRecSet \/ RPubRecRel(TRUE)

\* one caller goroutine calls Publish at QoS1 and QoS2 and any write of a
\* PUBLISH may fail; the server answers the PUBLISHes it received and sends
\* PUBACK, PUBCOMP, PUBREL and PUBLISH under any packet id at any time
NextStale ==
    \/ \E c \in OneCaller, q \in {1, 2} : Settled /\ PublishBegin(c, q)
    \/ \E c \in OneCaller : Acquire(c)
    \/ \E c \in OneCaller : PubNew(c) \/ PubAdd(c)
    \/ \E c \in OneCaller, ok \in BOOLEAN : PubSend(c, ok)
    \/ \E c \in OneCaller : PubGet(c) \/ PubWait(c) \/ PubDel(c)
    \/ \E c \in PublishSent : RPubRec(PubRecPkt(pid[c]))
    \/ \E i \in Ids : RPubAck(PubAckPkt(i))
    \/ \E i \in Ids : RPubComp(PubCompPkt(i))
    \/ \E i \in Ids : RPubRel(PubRelPkt(i))
    \/ \E i \in Ids, q \in {1, 2} : RPublish(PublishPkt(i, q, "a"))
    \/ StaleSteps

SpecStale == Init /\ [][NextStale]_vars

\* the steps of a caller inside Subscribe or Ping, over a transport that
\* takes the caller's writes
RepostCaller(c) ==
    \/ Acquire(c) \/ SubscribeSteps(c)
    \/ SubWaitErr(c) \/ SubRepost(c)
    \/ PingWaitResp(c) \/ PingWaitErr(c) \/ PingRepost(c)

\* the reader answers an inbound QoS1 PUBLISH; the write of the PUBACK may
\* fail, and then the reader pushes the error and goes on
RepostReader ==
    \/ \E ok \in BOOLEAN : RPub1Send(ok)
    \/ RPub1Err \/ RPub1Del
    \/ RAckSend \/ RPingResp

\* one caller goroutine calls Subscribe and Ping; the server answers them
\* and publishes at QoS1, and the reader's PUBACK writes may fail
NextRepost ==
    \/ \E c \in OneCaller :
          Settled /\ SubscribeBegin(c, <<[name |-> "a", sink |-> "s1"]>>)
    \/ \E c \in OneCaller : Settled /\ PingBegin(c, TRUE)
    \/ \E c \in OneCaller : RepostCaller(c)
    \/ \E c \in SubscribeSent : RAck(Granted(c))
    \/ PingSent /\ RRecvSignal(PingRespPkt)
    \/ \E i \in InboundIds : RPublish(PublishPkt(i, 1, "b"))
    \/ RepostReader

\* the Go scheduler runs a goroutine that can run: the caller inside a call
\* and the reader after Recv returned; the server does not have to send
SpecRepost ==
    /\ Init /\ [][NextRepost]_vars
    /\ \A c \in OneCaller : WF_vars(RepostCaller(c))
    /\ WF_vars(RepostReader)

\* the reader hands a CONNACK or a PINGRESP to its channel
SignalSteps == RConnAck \/ RPingResp

\* one caller goroutine calls Connect and Ping over a transport that works;
\* the server sends CONNACK and PINGRESP at any time, asked for or not
NextSignal ==
    \/ \E c \in OneCaller : ConnectBegin(c, TRUE)
    \/ \E c \in OneCaller : ConWaitAck(c)
    \/ \E c \in OneCaller : PingBegin(c, TRUE)
    \/ \E c \in OneCaller : PingWaitResp(c)
    \/ \E r \in RetCodes : RRecvSignal(ConnAckPkt(r))
    \/ RRecvSignal(PingRespPkt)
    \/ SignalSteps

\* the Go scheduler runs the reader when its send can proceed, and a caller
\* whose receive can proceed; nobody has to call Connect or Ping
SpecSignal ==
    /\ Init /\ [][NextSignal]_vars
    /\ WF_vars(SignalSteps)
    /\ \A c \in OneCaller : WF_vars(ConWaitAck(c) \/ PingWaitResp(c))

\* the steps of a caller inside Publish at QoS2, Subscribe and Unsubscribe
WaiterStep(c) ==
    \/ Acquire(c)
    \/ PublishSteps(c) \/ UnsubscribeSteps(c) \/ SubscribeSteps(c)

\* the steps the reader takes by itself after it received an acknowledgement
ForwardStep ==
    RAckSend \/ RPubRecFwd \/ RPubRecSet \/ RPubRecRel(TRUE)

\* one caller goroutine calls Publish at QoS2 and Subscribe, the other one
\* Unsubscribe, over a transport whose writes succeed; the server answers a
\* request once, at any moment after the request is written: also before
\* the caller has fetched its channel (pub_get, sub_get, uns_get) and
\* started to wait
NextWake ==
    \/ \E c \in OneCaller : Settled /\ PublishBegin(c, 2)
    \/ \E c \in OneCaller :
          Settled /\ SubscribeBegin(c, <<[name |-> "a", sink |-> "s1"]>>)
    \/ \E c \in Callers \ OneCaller :
          Settled /\ UnsubscribeBegin(c, <<"a">>)
    \/ \E c \in Callers : WaiterStep(c)
    \/ \E c \in PublishSent : RPubRec(PubRecPkt(pid[c]))
    \/ \E i \in Ids :
          pendingPackets[i].kind = "PubRel" /\ RPubComp(PubCompPkt(i))
    \/ \E c \in SubscribeSent : RAck(Granted(c))
    \/ \E c \in UnsubscribeSent : RAck(UnsubAckPkt(pid[c]))
    \/ ForwardStep

\* the Go scheduler runs a goroutine that can run: a caller inside a call
\* and the reader after Recv returned; the server does not have to send
SpecWake ==
    /\ Init /\ [][NextWake]_vars
    /\ \A c \in Callers : WF_vars(WaiterStep(c))
    /\ WF_vars(ForwardStep)

\* ------------------------------------------------------------------- claims
\* aquirePacketID returns to caller c in this step
AcquireReturns(c) ==
    /\ pc[c] = "acq_ack"
    /\ pc'[c] \notin {"acq_ack", "acq_pend", "panic"}

\* C1: the id that aquirePacketID returns is, at the moment it is returned,
\* a key of neither the pending table nor the ack-waiter table
C1_ReturnedIdIsFree ==
    [][\A c \in Callers : AcquireReturns(c) =>
          /\ ~HasPacket(pendingPackets', pid'[c])
          /\ ~HasChan(ackChan', pid'[c])]_vars

\* the caller has written its request and has not yet received the
\* acknowledgement it blocks for
Awaiting(c) ==
    pc[c] \in {"pub_get", "pub_wait", "sub_get", "sub_wait", "uns_get",
               "uns_wait"}

\* C2: no two operations that are awaiting their acknowledgement at the same
\* time carry the same packet id: two blocked callers have different ids, and
\* the id of a blocked Subscribe, Unsubscribe or QoS2 Publish is not the key
\* of the pending PUBLISH of another operation
C2_DistinctIdsInFlight ==
    /\ \A c, d \in Callers :
          (c # d /\ Awaiting(c) /\ Awaiting(d)) => pid[c] # pid[d]
    /\ \A c \in Callers :
          Awaiting(c) =>
             pendingPackets[pid[c]] #
                PendPublish(IF op[c].name = "Publish" THEN 1 ELSE 2)
    /\ \A c \in Callers :
          (Awaiting(c) /\ op[c].name # "Publish") =>
             pendingPackets[pid[c]].kind # "Publish"

\* C3: a QoS2 Publish that is about to return without error (only its
\* deferred ackChan.Del is left) was released by a PUBREC that carries the
\* packet id of that publish, and by nothing else
C3_ReleasedByPubRecOnly ==
    \A c \in Callers :
        (pc[c] = "pub_del" /\ result[c].err = Nil)
        => got[c] = PubRecPkt(pid[c])

\* C4: the pending entry of an outbound QoS2 publish with id i (the PUBLISH,
\* then the PUBREL) is removed on receipt of PUBCOMP(i) and at no other time
C4_RemovedOnPubCompOnly ==
    [][\A i \in Ids :
          (pendingPackets[i].qos = 2 /\ pendingPackets'[i] = NoEntry)
          => (rpc = "recv" /\ rpkt' = PubCompPkt(i))]_vars

\* the reader finishes an inbound PUBLISH or PUBREL with id i in this step
InboundStep(i) ==
    \/ rpc \in {"r_pub1_del", "r_pub2_set"} /\ rpkt.id = i
    \/ rpc = "recv" /\ rpc' = "r_pubrel_send" /\ rpkt' = PubRelPkt(i)

\* C5: an inbound PUBLISH or PUBREL with the id of a pending outbound PUBLISH
\* neither removes nor overwrites that entry
C5_InboundKeepsOutbound ==
    [][\A i \in Ids :
          (pendingPackets[i].kind = "Publish" /\ InboundStep(i))
          => pendingPackets'[i] = pendingPackets[i]]_vars

\* the reader hands the payload of the PUBLISH it received to a sink in
\* this step
Delivers == \E s \in Sinks : sinkBuf'[s] > sinkBuf[s]

\* C6: the payload of an inbound QoS2 PUBLISH that the server repeats with
\* the same packet id before its PUBREL is handed to the sink once
C6_Qos2DeliveredOnce ==
    [][(Delivers /\ rpkt'.qos = 2) => hist.q2[rpkt'.id] # rpkt'.topic]_vars

\* Subscribe returns the return codes of the SUBACK to caller c in this step
SubscribeReturnsCodes(c) ==
    /\ pc[c] = "sub_del" /\ pc'[c] = "idle"
    /\ got[c].kind = "SubAck" /\ result'[c].err = Nil

\* in router m every filter of topics that has a return code is registered
\* with its sink when the code is at most 2 and has no sink otherwise
RolledBack(m, topics, codes) ==
    \A i \in 1 .. Len(topics) :
        i <= Len(codes) =>
           SubMapGet(m, topics[i].name) =
              IF codes[i] > 2 THEN Absent ELSE topics[i].sink

\* no filter occurs twice in topics
DistinctFilters(topics) ==
    \A i, j \in 1 .. Len(topics) :
        i # j => topics[i].name # topics[j].name

C8_UnsubscribedNotDelivered ==
    [][Delivers => rpkt'.topic \notin hist.unsubbed]_vars

\* the error P7 assigns to CONNACK return code r
MappedError(r) ==
    IF r = 0 THEN Nil
    ELSE IF r = 1 THEN "ErrConnectBadVersion"
    ELSE IF r = 2 THEN "ErrConnectIDNotAllowed"
    ELSE IF r = 3 THEN "ErrConnectUnavailable"
    ELSE IF r = 4 THEN "ErrConnectCredentials"
    ELSE IF r = 5 THEN "ErrConnectUnauthorized"
    ELSE "ErrIllegalResponse"

\* the waiting Connect of caller c takes the CONNACK out of c.connAck and
\* returns in this step
ConnectTakesConnAck(c) ==
    /\ pc[c] = "con_wait" /\ pc'[c] = "idle"
    /\ connAck # <<>> /\ connAck' = Tail(connAck)

\* C9: for every return code r of a CONNACK delivered to a waiting Connect,
\* Connect returns nil for 0, the labelled error for 1..5 and
\* ErrIllegalResponse for every r >= 6
C9_ConnAckMapping ==
    [][\A c \in Callers : ConnectTakesConnAck(c) =>
          result'[c].err = MappedError(Head(connAck).rc)]_vars

\* a Connect has returned the error of return code 5
C9_Witness ==
    \E c \in Callers :
        /\ pc[c] = "idle" /\ result[c].op = "Connect"
        /\ result[c].err = "ErrConnectUnauthorized"

\* caller c returns in this step the error it took out of c.errChan
ReturnsObservedError(c) ==
    /\ pc'[c] = "idle"
    /\ \/ pc[c] = "con_wait" /\ errChan # <<>> /\ errChan' = Tail(errChan)
       \/ pc[c] = "ping_repost"
       \/ pc[c] = "sub_del" /\ got[c] = ErrorValue

\* C10: every operation that has observed the fatal error on the error
\* channel leaves the channel non-empty when it returns, so that the next
\* operation that waits on the channel observes the error too
C10_ErrorStaysPosted ==
    [][\A c \in Callers : ReturnsObservedError(c) => errChan' # <<>>]_vars

\* caller c has written its request and blocks for the answer: the channel
\* it receives the answer from is empty
BlockedForAck(c) ==
    \/ pc[c] = "con_wait" /\ connAck = <<>>
    \/ pc[c] = "ping_wait" /\ pingResp = <<>>
    \/ /\ pc[c] \in {"sub_wait", "uns_wait", "pub_wait"}
       /\ (achan[c] = NoChan \/ chans[achan[c]] = <<>>)

\* the reader has pushed a fatal error on the error channel and has returned
FatalPushed == rpc = "done" /\ rerr # Nil

\* C11: a caller that is blocked for its acknowledgement when the reader has
\* pushed a fatal error eventually returns, and returns an error
C11_BlockedCallerReturns ==
    \A c \in OneCaller :
        (FatalPushed /\ BlockedForAck(c))
           ~> (pc[c] = "idle" /\ result[c].err # Nil)

\* where a caller is after a failed write: it has returned, or only the
\* deferred removal of its ack channel is left
AfterFailedWrite == {"idle", "pub_del", "sub_del", "uns_del"}

\* C12: an operation whose write failed neither waits for a response nor
\* writes again, and returns the write error
C12_WriteErrorReturned ==
    [][\A c \in Callers :
          /\ result'[c].err = SendErr => pc'[c] \in AfterFailedWrite
          /\ (result[c].err = SendErr /\ pc'[c] # pc[c] /\ pc[c] # "idle")
                => (pc'[c] = "idle" /\ result'[c].err = SendErr)]_vars

\* Unsubscribe has returned the error of its failed write
C12_Witness ==
    \E c \in Callers :
        /\ pc[c] = "idle"
        /\ result[c] = [op |-> "Unsubscribe", err |-> SendErr]

\* caller c is inside a Publish whose QoS is none of 0, 1, 2
IllegalPublish(c) == op[c].name = "Publish" /\ op[c].qos \notin QoSValues

\* caller c takes a step of the operation it is in
CallerMoves(c) ==
    pc[c] # "idle" /\ <<pc[c], pid[c], tries[c]>> # <<pc'[c], pid'[c], tries'[c]>>

DisconnectReturns(c) ==
    op[c].name = "Disconnect" /\ pc[c] # "idle" /\ pc'[c] = "idle"

\* C13: whenever Disconnect returns, c.io.Close() has been called in that
\* call, also when c.io.Send failed, and the error returned is the error of
\* the send if it failed, otherwise the error of the close, otherwise nil
C13_DisconnectCloses ==
    [][\A c \in Callers :
          /\ (pc[c] = "idle" /\ pc'[c] # "idle"
                 /\ op'[c].name = "Disconnect") => pc'[c] = "dis_close"
          /\ DisconnectReturns(c) =>
                /\ pc[c] = "dis_close"
                /\ hist'.closed
                /\ result'[c].op = "Disconnect"
                /\ result'[c].err = IF result[c].err = SendErr THEN SendErr
                                     ELSE hist'.closeErr]_vars

\* Disconnect has returned the error of a failed send after a close that
\* failed too
C13_Witness ==
    \E c \in Callers :
        /\ pc[c] = "idle"
        /\ result[c] = [op |-> "Disconnect", err |-> SendErr]
        /\ hist.closed /\ hist.closeErr = CloseErr

\* the operation of caller c puts the id it acquires into its packet
UsesPacketId(c) ==
    \/ op[c].name \in {"Subscribe", "Unsubscribe"}
    \/ op[c].name = "Publish" /\ op[c].qos \in {1, 2}

\* C18: the id that aquirePacketID returns to Subscribe, Unsubscribe or a
\* Publish at QoS1 or QoS2 is never 0
C18_PacketIdNonZero ==
    [][\A c \in Callers :
          (AcquireReturns(c) /\ UsesPacketId(c)) => pid'[c] # 0]_vars

\* C15: when "a/b" is the only registered filter, "a/b" resolves to its sink
\* and "a/c" to none; when "a/+" is the only registered filter, "a/b" and
\* "a/c" resolve to its sink, "a" and "a/b/c" to none
C15_ConcreteAndSingleLevel ==
    \A c \in Sinks :
        /\ (~rcall.panic /\ registered = {<<TopicAB, c>>}) =>
              /\ TopicChanGet(topicTree, TopicAB) = c
              /\ TopicChanGet(topicTree, TopicAC) = Nil
        /\ (~rcall.panic /\ registered = {<<FilterAPlus, c>>}) =>
              /\ TopicChanGet(topicTree, TopicAB) = c
              /\ TopicChanGet(topicTree, TopicAC) = c
              /\ TopicChanGet(topicTree, TopicA) = Nil
              /\ TopicChanGet(topicTree, TopicABC) = Nil

\* with "a/+" the only registered filter, get("a/c") has returned its sink
C15_Witness ==
    /\ registered = {<<FilterAPlus, "s1">>}
    /\ rcall = [name |-> "get", topic |-> TopicAC, chan |-> "s1",
                panic |-> FALSE]

\* C16: when "a/#" is the only registered filter, "a", "a/b" and "a/b/c"
\* resolve to its sink
C16_MultiLevel ==
    \A c \in Sinks :
        (~rcall.panic /\ registered = {<<FilterAHash, c>>}) =>
            /\ TopicChanGet(topicTree, TopicA) = c
            /\ TopicChanGet(topicTree, TopicAB) = c
            /\ TopicChanGet(topicTree, TopicABC) = c

\* C17: once "a/+" and "a/b" have both been registered, in either order,
\* "a/b" resolves to the sink of "a/b"
C17_ConcreteFirst ==
    \A c1, c2 \in Sinks :
        ({<<FilterAPlus, c1>>, <<TopicAB, c2>>} \subseteq registered) =>
            /\ ~rcall.panic
            /\ TopicChanGet(topicTree, TopicAB) = c2

\* the input has the continuation bit set on each of its first four bytes
FourthByteContinues(in) ==
    Len(in) >= 4 /\ \A k \in 1 .. 4 : in[k] >= 128

\* C20: EncodeUvarint writes GetUvarintLen(v) bytes, between 1 and 4, for
\* every v up to MaxVarint, and ReadVarint of either package reads v back
\* from them; EncodeUvarint fails for a larger v; ReadVarint fails with the
\* varint-too-long error when the fourth byte has the continuation bit set
C20_BoundedVarint ==
    /\ (venc # NoEnc /\ venc.val <= MaxVarint) =>
          /\ venc.err = Nil
          /\ venc.n = GetUvarintLen(venc.val)
          /\ venc.n \in 1 .. 4
    /\ (venc # NoEnc /\ venc.val > MaxVarint) => venc.err # Nil
    /\ (venc # NoEnc /\ vdec # NoDec) =>
          (vdec.err = Nil /\ vdec.v = venc.val /\ vdec.n = venc.n)
    /\ (vdec # NoDec /\ FourthByteContinues(vdec.in)) =>
          vdec.err = ErrVarintTooLong

\* C19: the packet that Recv returns for a packet handed to Send is equal to
\* that packet, and Recv returns no error for it
C19_RoundTrip ==
    recvd.of # NoPacket => (recvd.err = Nil /\ recvd.pkt = recvd.of)

\* the last Recv decoded a frame of the PUBACK family or an UNSUBACK frame
\* whose declared remaining length is len
DecodedAck(len) ==
    /\ Len(recvd.raw) >= 4
    /\ recvd.raw[1] \in AckCommands
    /\ recvd.raw[2] = len

\* C21: decoding PUBACK, PUBREC, PUBREL, PUBCOMP or UNSUBACK succeeds exactly
\* when the declared remaining length is 2, a declared length below 2 yields
\* ErrPacketShort and one above 2 yields ErrPacketLong
C21_AckLengthRule ==
    \A len \in 0 .. 3 :
        DecodedAck(len) =>
            recvd.err = (IF len < 2 THEN ErrPacketShort
                         ELSE IF len > 2 THEN ErrPacketLong ELSE Nil)

\* the fields of the struct that MarshalBinary writes with a length prefix
Encodes(c, f) ==
    CASE f = "ClientID" -> TRUE
      [] f = "Username" -> c.Username # EmptyStr
      [] f = "Password" ->
           /\ c.Password # EmptyStr
           /\ (c.Username # EmptyStr \/ c.Version >= MQTTv5)
      [] f = "WillTopic" -> c.WillTopic.Name # EmptyStr
      [] f = "WillMessage" -> c.WillTopic.Name # EmptyStr
FieldOf(c, f) == IF f = "WillTopic" THEN c.WillTopic.Name ELSE c[f]

\* C22: MarshalBinary of a CONNECT with a string or binary field longer
\* than 65535 bytes returns an error
C22_LongFieldRejected ==
    \A f \in {"ClientID", "Username", "Password", "WillTopic", "WillMessage"} :
        (/\ cenc.out.made
         /\ Encodes(cenc.pkt, f)
         /\ FieldOf(cenc.pkt, f).len > 65535) => cenc.out.err # Nil

\* the Will bit of the connect flags is set
HasWillFlag(flags) == (flags \div connectFlagWill) % 2 = 1

\* C23: the CONNECT that Connect marshals for options with a will topic has
\* the Will flag, the will QoS and the will-retain flag of the options in
\* its flags and carries the will topic and the will message
C23_WillCarried ==
    (cenc.options.WillTopic # NoTopic /\ cenc.out.made) =>
        /\ cenc.out.err = Nil
        /\ HasWillFlag(cenc.out.flags)
        /\ (cenc.out.flags \div 8) % 4 = cenc.options.WillTopic.QoS
        /\ ((cenc.out.flags \div connectFlagWillRetain) % 2 = 1)
              = cenc.options.WillRetain
        /\ cenc.out.WillTopic = cenc.options.WillTopic.Name
        /\ cenc.out.WillMessage = cenc.options.WillMessage

\* the packets MQTT defines as the response to inbound packet p
Replies(p) ==
    CASE p.kind = "Publish" /\ p.qos = 1 -> <<PubAckPkt(p.id)>>
      [] p.kind = "Publish" /\ p.qos = 2 -> <<PubRecPkt(p.id)>>
      [] p.kind = "PubRec" -> <<PubRelPkt(p.id)>>
      [] p.kind = "PubRel" -> <<PubCompPkt(p.id)>>
      [] OTHER -> <<>>

\* the reader is back in Recv and has written the response to the packet it
\* received last, and nothing else
Answered == rpc = "recv" /\ hist.wire = Replies(rpkt)

\* C24: the reader answers a QoS1 PUBLISH with one PUBACK, a QoS2 PUBLISH
\* with one PUBREC, a PUBREC with one PUBREL and a PUBREL with one PUBCOMP of
\* the same packet id, and writes nothing for a QoS0 PUBLISH: whenever it is
\* back in Recv it has written exactly that, and it always gets back there
C24_AnsweredInKind ==
    /\ [](rpc = "recv" => Answered)
    /\ (rpc # "recv") ~> Answered

\* a PUBREC was answered with its PUBREL while a Publish waited for it
C24_Witness ==
    /\ rpc = "recv"
    /\ rpkt.kind = "PubRec"
    /\ hist.wire = <<PubRelPkt(rpkt.id)>>
    /\ \E c \in Callers : pc[c] = "pub_wait" /\ pid[c] = rpkt.id

\* caller c writes its QoS1 PUBLISH in this step
WritesPublish1(c) ==
    pc[c] = "pub_send" /\ pc'[c] # "pub_send" /\ op[c].qos = 1

\* the reader receives and handles the PUBACK of packet id i in this step
HandlesPubAck(i) ==
    /\ rpc = "recv" /\ rpc' = "recv"
    /\ pc' = pc
    /\ rpkt' = PubAckPkt(i)
    /\ pendingPackets' # pendingPackets

AckKind(o) ==
    CASE o.name = "Subscribe" -> "SubAck"
      [] o.name = "Unsubscribe" -> "UnsubAck"
      [] o.name = "Publish" -> "PubRec"
      [] OTHER -> ""

\* caller c has written its request, and the reader has just received the
\* matching acknowledgement and is about to look up the ack-waiter
AckArrived(c) ==
    /\ pc[c] \in {"pub_get", "pub_wait", "sub_get", "sub_wait",
                  "uns_get", "uns_wait"}
    /\ rpc \in {"r_ack_send", "r_pubrec_fwd"}
    /\ rpkt.id = pid[c]
    /\ rpkt.kind = AckKind(op[c])

\* C26: when the SUBACK, UNSUBACK or PUBREC that answers a written request
\* is received, before or after the caller started to wait, the caller
\* returns from Subscribe, Unsubscribe or Publish
C26_NoLostWakeup ==
    \A c \in Callers : AckArrived(c) ~> (pc[c] = "idle")

\* the acknowledgement arrived before the caller fetched its channel
C26_Witness ==
    \E c \in Callers :
        AckArrived(c) /\ pc[c] \in {"pub_get", "sub_get", "uns_get"}

\* the reader terminates in this step without a push: Recv reported io.EOF
SilentExit == rpc = "recv" /\ rpc' = "done" => errChan' = errChan

\* the reader holds error e to push, and the step it takes next is the push
\* of e followed by its return
PushesAndReturns(e) ==
    (rpc = "r_fatal" /\ rerr = e /\ rpc' # rpc) =>
        errChan' = Append(errChan, e) /\ rpc' = "done"

\* C27: on end-of-stream the reader terminates and pushes nothing; on any
\* other error of Recv it pushes that error on the error channel and
\* terminates
C27_RecvErrorPosted ==
    /\ [][SilentExit /\ PushesAndReturns(RecvErr)]_vars
    /\ (rpc = "r_fatal" /\ rerr = RecvErr) ~> (rpc = "done")

\* the reader pushes an error on the error channel in this step
ReaderPushes ==
    /\ rpc \notin {"recv", "done"}
    /\ Len(errChan') = Len(errChan) + 1

\* C28: every push of an error by the reader is followed at once by its
\* termination, so the reader pushes at most one error
C28_PushThenExit == [][ReaderPushes => rpc' = "done"]_vars

\* C29: having received a packet a client must never receive, the reader
\* pushes ErrIllegalResponse on the error channel and terminates, and once
\* terminated it dispatches nothing
C29_IllegalResponseFatal ==
    /\ [][PushesAndReturns("ErrIllegalResponse")]_vars
    /\ [][rpc = "done" => rpc' = "done" /\ rpkt' = rpkt]_vars
    /\ (rpc = "r_fatal" /\ rerr = "ErrIllegalResponse") ~> (rpc = "done")

\* the reader receives a SUBACK or UNSUBACK in this step
ReceivesAck ==
    /\ rpc = "recv"
    /\ rpkt'.kind \in {"SubAck", "UnsubAck"}
    /\ rpkt' # rpkt \/ rpc' # rpc

\* the tables and the router are as before the step
TablesKept ==
    /\ pendingPackets' = pendingPackets
    /\ ackChan' = ackChan
    /\ subs' = subs /\ sinkBuf' = sinkBuf

\* the reader looks the packet id up: with a waiter it goes on to forward to
\* the channel registered under that id, without one it is back in Recv and
\* no channel has changed
LookupRule ==
    ReceivesAck =>
        /\ TablesKept /\ chans' = chans
        /\ IF HasChan(ackChan, rpkt'.id)
           THEN rpc' = "r_ack_send" /\ rchan' = ackChan[rpkt'.id]
           ELSE rpc' = "recv" /\ rchan' = NoChan

\* the reader forwards: the packet is appended to the channel it looked up
\* when that channel has room and somebody still refers to it, no other
\* channel changes, and the reader is back in Recv
ForwardRule ==
    (rpc = "r_ack_send" /\ rpc' # rpc) =>
        /\ TablesKept /\ rpc' = "recv"
        /\ \A x \in ChanIds \ {rchan} : chans'[x] = chans[x]
        /\ chans'[rchan] =
              IF rchan \notin Live(ackChan, achan, NoChan) THEN <<>>
              ELSE IF Len(chans[rchan]) < ChanCap
                   THEN Append(chans[rchan], rpkt)
                   ELSE chans[rchan]

\* C30: a SUBACK or UNSUBACK is forwarded to the channel registered under
\* its packet id and to no other, the send never blocks (the reader can take
\* the step whenever the program has not panicked), and without a
\* channel under the id the packet is dropped: the pending table, the
\* ack-waiter table and the router stay as they are and the reader is back
\* in Recv
C30_AckToItsWaiter ==
    /\ [][LookupRule /\ ForwardRule]_vars
    /\ []((Alive /\ rpc = "r_ack_send") => ENABLED RAckSend)

\* an acknowledgement nobody waits for was dropped while another request
\* waits and the pending table and the router hold entries
C30_Witness ==
    /\ rpc = "recv"
    /\ rpkt.kind \in {"SubAck", "UnsubAck"}
    /\ ~HasChan(ackChan, rpkt.id)
    /\ \E i \in Ids : HasChan(ackChan, i) /\ chans[ackChan[i]] # <<>>
    /\ \E i \in Ids : HasPacket(pendingPackets, i)
    /\ \E f \in Filters : subs[f] # Absent

\* the reader receives a PUBLISH in this step
ReceivesPublish ==
    /\ rpc = "recv"
    /\ rpkt'.kind = "Publish"
    /\ rpkt' # rpkt \/ rpc' # rpc

\* a PUBLISH whose sink is full or missing leaves every sink as it is, and
\* the reader goes on to the reply of its QoS
DropRule ==
    (ReceivesPublish /\ ~Delivered(rpkt')) =>
        /\ sinkBuf' = sinkBuf
        /\ rpc' = CASE rpkt'.qos = 1 -> "r_pub1_send"
                  [] rpkt'.qos = 2 -> "r_pub2_send"
                  [] OTHER -> "recv"

\* C31: the reader in Recv can take every PUBLISH, whatever the state of the
\* sinks; a payload without a sink or for a full sink is dropped; and the
\* reader writes the reply of the QoS of the packet and gets back to Recv
C31_DeliveryNeverBlocks ==
    /\ [](Dispatching => \A p \in InboundPublishes : ENABLED RPublish(p))
    /\ [][DropRule]_vars
    /\ [](rpc = "recv" => hist.wire = Replies(rpkt))
    /\ (rpc \in {"r_pub1_send", "r_pub2_send"}) ~> (rpc = "recv")

\* a QoS1 PUBLISH for a full sink was dropped and answered with its PUBACK
C31_Witness ==
    /\ rpc = "recv"
    /\ rpkt.kind = "Publish" /\ rpkt.qos = 1
    /\ hist.wire = <<PubAckPkt(rpkt.id)>>
    /\ SubMapGet(subs, rpkt.topic) # Absent
    /\ sinkBuf[SubMapGet(subs, rpkt.topic)] = SinkCap
    /\ \E f \in Filters : SubMapGet(subs, f) = Absent

\* remove(f) runs in this step
Removes(f) ==
    /\ rcall'.name = "remove" /\ rcall'.topic = f
    /\ rcall' # rcall \/ topicTree' # topicTree

\* C32: after remove(f) the filter f resolves to no sink and every other
\* filter resolves to the sink it resolved to before, whether f was
\* registered or not
C32_RemoveTouchesOnlyItsFilter ==
    [][\A f \in PruneFilters :
          Removes(f) =>
              /\ TopicChanGet(topicTree', f) = Nil
              /\ \A g \in PruneFilters \ {f} :
                    TopicChanGet(topicTree', g) = TopicChanGet(topicTree, g)]_vars

\* the tasks between the sendMutex and the return of Send
InSend == {t \in Senders : snd.pc[t] # "idle"}

\* chunk k > 1 of a packet follows chunk k - 1 of the same packet
Contiguous(w) ==
    \A i \in 1 .. Len(w) :
        w[i][2] > 1 => i > 1 /\ w[i - 1] = <<w[i][1], w[i][2] - 1>>

\* C33: at most one task is between the sendMutex and the return of Send,
\* the chunks of a packet follow each other on the transport, the sendMutex
\* holds one token per task inside and none when every Send has returned,
\* whatever Send returned, and a task can then enter
C33_OneSenderAtATime ==
    /\ Cardinality(InSend) <= 1
    /\ Contiguous(snd.wire)
    /\ Len(snd.mutex) = Cardinality(InSend)
    /\ InSend = {} => \A t \in Senders : ENABLED SendEnter(t)

\* a Send has returned the deadline error, another one a write error after
\* its first chunk, and a third task is writing its second chunk
C33_Witness ==
    /\ \E t \in Senders : snd.err[t] = DeadlineErr /\ snd.pc[t] = "idle"
    /\ \E t \in Senders : snd.err[t] = SendErr /\ snd.pc[t] = "idle"
    /\ \E t \in Senders : snd.pc[t] = "write" /\ snd.left[t] = 1
    /\ Len(snd.wire) = 1

\* C34: while the reader is inside get of the subscription tree no caller
\* is inside add or remove
C34_LookupExcludesMutation ==
    acc.in["reader"] = "get" =>
        \A c \in Callers : acc.in[c] \notin {"add", "remove"}

\* aquirePacketID of caller c gives up in this step
AcquirePanics(c) ==
    /\ pc[c] \in {"acq_pend", "acq_ack"}
    /\ pc'[c] = "panic"

\* every packet id is a key of the pending table or of the ack-waiter table
AllOutstanding ==
    \A i \in Ids : HasPacket(pendingPackets, i) \/ HasChan(ackChan, i)

\* C35: aquirePacketID probes at most 65535 candidates (all ids but one),
\* and it panics only when every packet id is outstanding in the pending
\* table or the ack-waiter table
C35_PanicOnlyWhenExhausted ==
    /\ [](\A c \in Callers : tries[c] < IdSpace - 1)
    /\ [][\A c \in Callers : AcquirePanics(c) => AllOutstanding]_vars

\* caller c is inside an operation that creates an ack waiter
InWaiterOp(c) ==
    /\ pc[c] # "idle"
    /\ \/ op[c].name \in {"Subscribe", "Unsubscribe"}
       \/ op[c].name = "Publish" /\ op[c].qos = 2

C37_SignalNeverStallsReader ==
    (rpc \in {"r_connack", "r_pingresp"}) ~> (rpc = "recv")

\* the write of caller c's QoS1 or QoS2 PUBLISH fails in this step
PublishWriteFails(c) ==
    /\ pc[c] = "pub_send" /\ op[c].qos \in {1, 2}
    /\ pc'[c] # "pub_get" /\ result'[c].err = SendErr

\* the QoS2 Publish of caller c returns after its write failed
FailedPublishReturns(c) ==
    /\ pc[c] = "pub_del" /\ result[c].err = SendErr
    /\ pc'[c] = "idle"

\* packet id i leaves the pending table in this step
Releases(i) ==
    HasPacket(pendingPackets, i) /\ ~HasPacket(pendingPackets', i)

\* the reader processes a PUBACK, PUBCOMP or PUBREL with id i in this step,
\* or finishes an inbound QoS1 PUBLISH with id i
PeerReleases(i) ==
    \/ /\ rpc = "recv"
       /\ rpkt'.kind \in {"PubAck", "PubComp", "PubRel"} /\ rpkt'.id = i
    \/ /\ rpc = "r_pub1_del"
       /\ rpkt.kind = "Publish" /\ rpkt.id = i

\* C38: when the write of a QoS1 or QoS2 PUBLISH fails, Publish returns the
\* error and leaves the pending table as it is, the PUBLISH under its id
\* included; an id
\* leaves the pending table only when the reader processes a PUBACK,
\* PUBCOMP, PUBREL or inbound PUBLISH with that id, and the probe of
\* aquirePacketID passes over an id it finds in the table
C38_FailedPublishKeepsId ==
    /\ [][\A c \in Callers : PublishWriteFails(c) =>
            /\ pendingPackets' = pendingPackets
            /\ op[c].qos = 1 => result'[c] = [op |-> "Publish", err |-> SendErr]
                                 /\ pc'[c] = "idle"]_vars
    /\ [][\A c \in Callers : FailedPublishReturns(c) =>
            /\ result'[c] = [op |-> "Publish", err |-> SendErr]
            /\ pendingPackets' = pendingPackets]_vars
    /\ [][\A i \in Ids : Releases(i) => PeerReleases(i)]_vars
    /\ [][\A c \in Callers : pc[c] = "acq_pend" /\ pc'[c] = "acq_ack" =>
            ~HasPacket(pendingPackets, pid[c])]_vars

\* a QoS2 Publish returned the write error and its PUBLISH is in the
\* pending table
C38_Witness ==
    /\ result["c1"] = [op |-> "Publish", err |-> SendErr]
    /\ pc["c1"] = "idle"
    /\ \E i \in Ids : pendingPackets[i] = PendPublish(2)

\* C39: a Subscribe or a Ping that has taken the fatal error from errChan
\* puts it back and returns, whatever the reader does in between
C39_RepostNeverBlocks ==
    \A c \in Callers :
        (pc[c] \in {"sub_repost", "ping_repost"}) ~> (pc[c] = "idle")

\* C40: Subscribe never panics in its rollback loop: for a SUBACK with any
\* number of return codes it reads no requested filter out of range
C40_RollbackStaysInRange ==
    \A c \in Callers :
        ~(pc[c] = "panic" /\ op[c].name = "Subscribe" /\ got[c].kind = "SubAck")

====
